---- MODULE Spec2Model ----
(***************************************************************************)
(* The in-memory rocket repository of rah-0/lunar                          *)
(* (internal/storage/repository.go): the channel map, the per-channel      *)
(* entry (RocketState + MessageBuffer + ContextMutex) and ProcessMessage,  *)
(* which applies envelopes in message-number order and buffers the ones    *)
(* that arrive early in a container/heap min-heap.                         *)
(***************************************************************************)
EXTENDS Integers, Sequences, FiniteSets, Bags, TLC

\* ------------------------------------------------------------------ bounds

\* Message numbers of the envelopes the general specification submits: 1..MaxNum.
MaxNum == 3
\* Number of ProcessMessage calls started in a run of the general specification.
MaxSubmits == 3
\* Goroutines calling the repository concurrently in the general specification.
NumThreads == 2
\* Length N of the producer's stream 1..N in the stream specifications.
StreamLen == 3
\* Deliveries (first deliveries and redeliveries) in the stream specification.
MaxDeliveries == 4
\* Goroutines calling ProcessMessage, GetRocket and ListRockets concurrently.
NumCallers == 3
\* Calls (of the three operations together) started in a run of the concurrent
\* specification; at most MaxSubmits of them are ProcessMessage calls.
MaxCalls == 4
\* Goroutines in the concurrent specification under fair scheduling.
NumFairCallers == 2

\* --------------------------------------------------------------- constants

MessageTypeRocketLaunched == "RocketLaunched"
MessageTypeRocketSpeedIncreased == "RocketSpeedIncreased"
MessageTypeRocketSpeedDecreased == "RocketSpeedDecreased"
MessageTypeRocketExploded == "RocketExploded"
MessageTypeRocketMissionChanged == "RocketMissionChanged"

MessageTypes ==
    { MessageTypeRocketLaunched, MessageTypeRocketSpeedIncreased,
      MessageTypeRocketSpeedDecreased, MessageTypeRocketExploded,
      MessageTypeRocketMissionChanged }

\* The channel the submits of these specifications address.
Channels == {"r1"}

Threads == 1..NumThreads

\* The message times the envelopes carry (0 is Go's zero time.Time).
MessageTimes == {1, 2}

\* "No entry" / "no value".
Null == [null |-> TRUE]

\* ---------------------------------------------------------------- envelope

\* models.Envelope: the metadata and the union of all payload fields, the fields
\* a message type does not use at Go's zero values.
Envelope(ch, num, tm, mt, ty, ls, mi, by, re, nm) ==
    [ Channel |-> ch, MessageNumber |-> num, MessageTime |-> tm, MessageType |-> mt,
      Type |-> ty, LaunchSpeed |-> ls, Mission |-> mi, By |-> by, Reason |-> re,
      NewMission |-> nm ]

\* Mutant of GetChannel: channel ids are folded to lower case.
GetChannel_Folded(e) == IF e.Channel = "R1" THEN "r1" ELSE e.Channel

GetChannel(e) == e.Channel
GetMessageNumber(e) == e.MessageNumber
GetMessageTime(e) == e.MessageTime
GetMessageType(e) == e.MessageType

\* The payloads the specifications draw from, per message type (By = 0 fails the
\* update function's precondition; By = 3 exceeds every launch speed).
Payloads(ch, num, tm) ==
    { Envelope(ch, num, tm, MessageTypeRocketLaunched, "Falcon-9", ls, "M1", 0, "", "")
        : ls \in {2} }
    \cup { Envelope(ch, num, tm, MessageTypeRocketSpeedIncreased, "", 0, "", by, "", "")
        : by \in {0, 1} }
    \cup { Envelope(ch, num, tm, MessageTypeRocketSpeedDecreased, "", 0, "", by, "", "")
        : by \in {3} }
    \cup { Envelope(ch, num, tm, MessageTypeRocketExploded, "", 0, "", 0, "boom", "") }
    \cup { Envelope(ch, num, tm, MessageTypeRocketMissionChanged, "", 0, "", 0, "", "M2") }

\* Every envelope the general specification may submit.
Envelopes ==
    UNION { Payloads(ch, num, tm) : ch \in Channels, num \in 1..MaxNum, tm \in MessageTimes }

\* ------------------------------------------------------------ MessageBuffer
\* A MessageBuffer is a Go slice used as a container/heap min-heap; the sequence
\* h holds slice index i at h[i + 1].

Less(h, i, j) == GetMessageNumber(h[i + 1]) < GetMessageNumber(h[j + 1])

Swap(h, i, j) == [h EXCEPT ![i + 1] = h[j + 1], ![j + 1] = h[i + 1]]

\* container/heap up(h, j)
RECURSIVE up(_, _)
up(h, j) ==
    IF j = 0 THEN h
    ELSE LET i == (j - 1) \div 2 IN
         IF ~Less(h, j, i) THEN h ELSE up(Swap(h, i, j), i)

\* container/heap down(h, i0, n)
RECURSIVE down(_, _, _)
down(h, i, n) ==
    LET j1 == 2 * i + 1 IN
    IF j1 >= n THEN h
    ELSE LET j == IF j1 + 1 < n /\ Less(h, j1 + 1, j1) THEN j1 + 1 ELSE j1 IN
         IF ~Less(h, j, i) THEN h ELSE down(Swap(h, i, j), j, n)

\* Mutant of heapPush: the envelope is appended and never sifted up.
heapPush_NoUp(h, x) == Append(h, x)

\* heap.Push(buffer, x): MessageBuffer.Push appends, then up(len - 1).
heapPush(h, x) == up(Append(h, x), Len(h))

\* heap.Pop(buffer): swap(0, n), down(0, n), then MessageBuffer.Pop cuts the last.
heapPop(h) ==
    LET n == Len(h) - 1
        h2 == down(Swap(h, 0, n), 0, n)
    IN  SubSeq(h2, 1, n)

\* ------------------------------------------------------------- RocketState

\* The state ProcessMessage creates for an unseen channel.
NewRocketState(rocketID, envelope) ==
    [ ID |-> rocketID, Type |-> envelope.Type, Mission |-> "", Speed |-> 0,
      Exploded |-> FALSE, Reason |-> "", UpdatedAt |-> 0, CreatedAt |-> 0,
      LastProcessedMessageNumber |-> 0 ]

\* Mutant of NewEntry: no entry for a message of unknown type.
NewEntry_KnownTypesOnly(rocketID, envelope) ==
    IF GetMessageType(envelope) \in MessageTypes
    THEN [ State |-> NewRocketState(rocketID, envelope), Buffer |-> << >> ]
    ELSE Null

NewEntry(rocketID, envelope) ==
    [ State |-> NewRocketState(rocketID, envelope), Buffer |-> << >> ]

\* getUpdateFuncForMessage(msg) is nil for an unknown message type.
HasUpdateFunc(msg) == GetMessageType(msg) \in MessageTypes

\* Whether the update function of msg returns true (its precondition).
UpdateOk(msg) ==
    CASE GetMessageType(msg) = MessageTypeRocketLaunched ->
            ~(msg.Type = "" \/ msg.Mission = "")
      [] GetMessageType(msg) = MessageTypeRocketSpeedIncreased -> ~(msg.By <= 0)
      [] GetMessageType(msg) = MessageTypeRocketSpeedDecreased -> ~(msg.By <= 0)
      [] GetMessageType(msg) = MessageTypeRocketExploded -> ~(msg.Reason = "")
      [] GetMessageType(msg) = MessageTypeRocketMissionChanged -> ~(msg.NewMission = "")
      [] OTHER -> FALSE

\* Mutant of UpdateFunc: a launch leaves the reason of the explosion in place.
UpdateFunc_KeepsReason(msg, rocket) ==
    IF ~UpdateOk(msg) THEN rocket
    ELSE CASE GetMessageType(msg) = MessageTypeRocketLaunched ->
                [rocket EXCEPT !.Type = msg.Type, !.Mission = msg.Mission,
                               !.Speed = msg.LaunchSpeed,
                               !.CreatedAt = GetMessageTime(msg),
                               !.Exploded = FALSE]
           [] GetMessageType(msg) = MessageTypeRocketSpeedIncreased ->
                [rocket EXCEPT !.Speed = rocket.Speed + msg.By]
           [] GetMessageType(msg) = MessageTypeRocketSpeedDecreased ->
                [rocket EXCEPT !.Speed =
                    IF rocket.Speed - msg.By < 0 THEN 0 ELSE rocket.Speed - msg.By]
           [] GetMessageType(msg) = MessageTypeRocketExploded ->
                [rocket EXCEPT !.Exploded = TRUE, !.Reason = msg.Reason]
           [] GetMessageType(msg) = MessageTypeRocketMissionChanged ->
                [rocket EXCEPT !.Mission = msg.NewMission]

\* Mutant of UpdateFunc: a decrease is not clamped at 0.
UpdateFunc_NoClamp(msg, rocket) ==
    IF ~UpdateOk(msg) THEN rocket
    ELSE CASE GetMessageType(msg) = MessageTypeRocketLaunched ->
                [rocket EXCEPT !.Type = msg.Type, !.Mission = msg.Mission,
                               !.Speed = msg.LaunchSpeed,
                               !.CreatedAt = GetMessageTime(msg),
                               !.Exploded = FALSE, !.Reason = ""]
           [] GetMessageType(msg) = MessageTypeRocketSpeedIncreased ->
                [rocket EXCEPT !.Speed = rocket.Speed + msg.By]
           [] GetMessageType(msg) = MessageTypeRocketSpeedDecreased ->
                [rocket EXCEPT !.Speed = rocket.Speed - msg.By]
           [] GetMessageType(msg) = MessageTypeRocketExploded ->
                [rocket EXCEPT !.Exploded = TRUE, !.Reason = msg.Reason]
           [] GetMessageType(msg) = MessageTypeRocketMissionChanged ->
                [rocket EXCEPT !.Mission = msg.NewMission]

\* Mutant of UpdateFunc: an explosion also stops the rocket.
UpdateFunc_ExplosionStops(msg, rocket) ==
    IF ~UpdateOk(msg) THEN rocket
    ELSE CASE GetMessageType(msg) = MessageTypeRocketLaunched ->
                [rocket EXCEPT !.Type = msg.Type, !.Mission = msg.Mission,
                               !.Speed = msg.LaunchSpeed,
                               !.CreatedAt = GetMessageTime(msg),
                               !.Exploded = FALSE, !.Reason = ""]
           [] GetMessageType(msg) = MessageTypeRocketSpeedIncreased ->
                [rocket EXCEPT !.Speed = rocket.Speed + msg.By]
           [] GetMessageType(msg) = MessageTypeRocketSpeedDecreased ->
                [rocket EXCEPT !.Speed =
                    IF rocket.Speed - msg.By < 0 THEN 0 ELSE rocket.Speed - msg.By]
           [] GetMessageType(msg) = MessageTypeRocketExploded ->
                [rocket EXCEPT !.Exploded = TRUE, !.Reason = msg.Reason, !.Speed = 0]
           [] GetMessageType(msg) = MessageTypeRocketMissionChanged ->
                [rocket EXCEPT !.Mission = msg.NewMission]

\* The rocket after the update function of msg ran (unchanged when it returns false).
UpdateFunc(msg, rocket) ==
    IF ~UpdateOk(msg) THEN rocket
    ELSE CASE GetMessageType(msg) = MessageTypeRocketLaunched ->
                [rocket EXCEPT !.Type = msg.Type, !.Mission = msg.Mission,
                               !.Speed = msg.LaunchSpeed,
                               !.CreatedAt = GetMessageTime(msg),
                               !.Exploded = FALSE, !.Reason = ""]
           [] GetMessageType(msg) = MessageTypeRocketSpeedIncreased ->
                [rocket EXCEPT !.Speed = rocket.Speed + msg.By]
           [] GetMessageType(msg) = MessageTypeRocketSpeedDecreased ->
                [rocket EXCEPT !.Speed =
                    IF rocket.Speed - msg.By < 0 THEN 0 ELSE rocket.Speed - msg.By]
           [] GetMessageType(msg) = MessageTypeRocketExploded ->
                [rocket EXCEPT !.Exploded = TRUE, !.Reason = msg.Reason]
           [] GetMessageType(msg) = MessageTypeRocketMissionChanged ->
                [rocket EXCEPT !.Mission = msg.NewMission]

\* ------------------------------------------------- the ordering protocol

\* Mutant of Applied: UpdatedAt is left as it was.
Applied_KeepsUpdatedAt(entry, msg, num) ==
    [entry EXCEPT !.State =
        [UpdateFunc(msg, entry.State) EXCEPT !.LastProcessedMessageNumber = num]]

\* The update function ran on the rocket: the message number and time are recorded.
Applied(entry, msg, num) ==
    [entry EXCEPT !.State =
        [UpdateFunc(msg, entry.State) EXCEPT !.LastProcessedMessageNumber = num,
                                             !.UpdatedAt = GetMessageTime(msg)]]

\* Mutant of ExplodedGate: no terminal gate.
ExplodedGate_Off(rocket, envelope) == FALSE

\* The rocket has exploded and the envelope is no relaunch.
ExplodedGate(rocket, envelope) ==
    rocket.Exploded /\ GetMessageType(envelope) # MessageTypeRocketLaunched

\* Mutant of IsDuplicate: the last applied number is not taken for a duplicate.
IsDuplicate_Strict(rocket, msgNum) == msgNum < rocket.LastProcessedMessageNumber

\* The envelope is a duplicate or an old message.
IsDuplicate(rocket, msgNum) == msgNum <= rocket.LastProcessedMessageNumber

\* Mutant of IsExpected: any message newer than the last applied one is applied.
IsExpected_AnyNewer(rocket, msgNum) == msgNum >= rocket.LastProcessedMessageNumber + 1

\* The envelope is the next expected message.
IsExpected(rocket, msgNum) == msgNum = rocket.LastProcessedMessageNumber + 1

\* Mutant of BufferAfterExplosion: the buffer is kept.
BufferAfterExplosion_Keep(buffer) == buffer

\* The buffer after a message that exploded the rocket was applied.
BufferAfterExplosion(buffer) == << >>

\* Mutant of bufferMessage: the envelope is pushed and false is returned.
bufferMessage_ReturnsFalse(entry, envelope) ==
    [ entry |-> [entry EXCEPT !.Buffer = heapPush(entry.Buffer, envelope)],
      ok |-> FALSE, drain |-> FALSE, applied |-> << >> ]

\* Mutant of bufferMessage: an envelope whose number is already buffered is dropped.
bufferMessage_NoTies(entry, envelope) ==
    IF \E i \in 1..Len(entry.Buffer) :
          GetMessageNumber(entry.Buffer[i]) = GetMessageNumber(envelope)
    THEN [entry |-> entry, ok |-> FALSE, drain |-> FALSE, applied |-> << >>]
    ELSE [ entry |-> [entry EXCEPT !.Buffer = heapPush(entry.Buffer, envelope)],
           ok |-> TRUE, drain |-> FALSE, applied |-> << >> ]

\* bufferMessage(entry, envelope): push a copy, return true.
bufferMessage(entry, envelope) ==
    [ entry |-> [entry EXCEPT !.Buffer = heapPush(entry.Buffer, envelope)],
      ok |-> TRUE, drain |-> FALSE, applied |-> << >> ]

\* processMessageWithOrdering from the lock to the call of processBufferedMessages:
\* the entry afterwards, the value returned, whether the buffer is drained next,
\* and the envelopes whose update function was applied.
processStart(entry, envelope) ==
    LET rocket == entry.State
        msgNum == GetMessageNumber(envelope)
        rejected == [entry |-> entry, ok |-> FALSE, drain |-> FALSE, applied |-> << >>]
    IN  IF ExplodedGate(rocket, envelope) THEN rejected
        ELSE IF IsDuplicate(rocket, msgNum) THEN rejected
        ELSE IF IsExpected(rocket, msgNum) THEN
            IF ~UpdateOk(envelope) THEN rejected
            ELSE LET e2 == Applied(entry, envelope, msgNum) IN
                 IF e2.State.Exploded
                 THEN [ entry |-> [e2 EXCEPT !.Buffer = BufferAfterExplosion(e2.Buffer)],
                        ok |-> TRUE, drain |-> FALSE, applied |-> <<envelope>> ]
                 ELSE [ entry |-> e2, ok |-> TRUE, drain |-> TRUE,
                        applied |-> <<envelope>> ]
        ELSE bufferMessage(entry, envelope)

\* One iteration of the loop of processBufferedMessages: the entry afterwards,
\* whether the loop goes on, and the envelopes applied.
drainIter(entry) ==
    LET rocket == entry.State
        buffer == entry.Buffer
    IN  IF Len(buffer) = 0 THEN [entry |-> entry, more |-> FALSE, applied |-> << >>]
        ELSE
        LET nextMsg == buffer[1]
            expectedMsgNum == rocket.LastProcessedMessageNumber + 1
        IN  IF GetMessageNumber(nextMsg) # expectedMsgNum
            THEN [entry |-> entry, more |-> FALSE, applied |-> << >>]
            ELSE IF ~HasUpdateFunc(nextMsg) \/ ~UpdateOk(nextMsg)
            THEN [ entry |-> [entry EXCEPT !.Buffer = heapPop(buffer)],
                   more |-> TRUE, applied |-> << >> ]
            ELSE LET e2 == Applied(entry, nextMsg, expectedMsgNum)
                     e3 == [e2 EXCEPT !.Buffer = heapPop(buffer)]
                 IN  IF e3.State.Exploded
                     THEN [ entry |-> [e3 EXCEPT !.Buffer = BufferAfterExplosion(e3.Buffer)],
                            more |-> FALSE, applied |-> <<nextMsg>> ]
                     ELSE [entry |-> e3, more |-> TRUE, applied |-> <<nextMsg>>]

\* processBufferedMessages(entry): the loop run to its end.
RECURSIVE processBufferedMessages(_)
processBufferedMessages(entry) ==
    LET r == drainIter(entry) IN
    IF r.more THEN processBufferedMessages(r.entry) ELSE r.entry

\* processMessageWithOrdering(entry, ctx) as a whole, with a context never cancelled.
processMessageWithOrdering(entry, envelope) ==
    LET r == processStart(entry, envelope) IN
    [ entry |-> IF r.drain THEN processBufferedMessages(r.entry) ELSE r.entry,
      ok |-> r.ok ]

\* ProcessMessage(ctx, envelope) as a whole on the channel map rs.
ProcessMessage(rs, envelope) ==
    LET rocketID == envelope.Channel
        entry == IF rs[rocketID] = Null THEN NewEntry(rocketID, envelope)
                 ELSE rs[rocketID]
    IN  IF ~HasUpdateFunc(envelope)
        THEN [rockets |-> [rs EXCEPT ![rocketID] = entry], ok |-> FALSE]
        ELSE LET r == processMessageWithOrdering(entry, envelope) IN
             [rockets |-> [rs EXCEPT ![rocketID] = r.entry], ok |-> r.ok]

\* ------------------------------------------------------------------ state

VARIABLES
    rockets,    \* InMemoryRepository.rockets: channel -> entry (State, Buffer) or Null
    mu,         \* InMemoryRepository.mu: the goroutine holding it, 0 when free
    entryMu,    \* rocketEntry.Mu of each channel: the goroutine holding it, 0 when free
    pc,         \* where each goroutine is in its ProcessMessage call
    call,       \* per goroutine: the envelope of its call, the value it returns, and
                \* the entry and the applied numbers when it took the entry lock
    applied,    \* per channel: the message numbers whose update function was applied,
                \* in the order of application
    started,    \* ProcessMessage calls started so far
    msgs,       \* the producer's stream, message i at msgs[i] (stream specifications)
    delivered   \* how many times each message of the stream was submitted

vars == <<rockets, mu, entryMu, pc, call, applied, started, msgs, delivered>>

\* Mutant of Acquirable: the lock is handed out while it is held.
Acquirable_Always(holder) == TRUE

\* ContextMutex.Lock with a context that is not cancelled: sem.Acquire(ctx, 1) on
\* a semaphore of weight 1 returns once no goroutine holds it.
Acquirable(holder) == holder = 0

\* Mutant of Unlock: the lock is not released.
Unlock_Noop(holder) == holder

\* ContextMutex.Unlock: sem.Release(1); the holder afterwards.
Unlock(holder) == 0

NoCall == [envelope |-> Null, ok |-> FALSE, pre |-> Null, preApplied |-> << >>]

Numbers(envs) == [i \in 1..Len(envs) |-> GetMessageNumber(envs[i])]

InitRepo(threads) ==
    /\ rockets = [c \in Channels |-> Null]
    /\ mu = 0
    /\ entryMu = [c \in Channels |-> 0]
    /\ pc = [t \in threads |-> "idle"]
    /\ call = [t \in threads |-> NoCall]
    /\ applied = [c \in Channels |-> << >>]
    /\ started = 0

\* NewInMemoryRepository(), no stream.
Init ==
    /\ InitRepo(Threads)
    /\ msgs = << >>
    /\ delivered = << >>

\* ProcessMessage is called with the envelope (its context is not done).
S_Begin(t, envelope) ==
    /\ pc[t] = "idle"
    /\ started < MaxSubmits
    /\ started' = started + 1
    /\ call' = [call EXCEPT ![t] = [NoCall EXCEPT !.envelope = envelope]]
    /\ pc' = [pc EXCEPT ![t] = "lockMap"]
    /\ UNCHANGED <<rockets, mu, entryMu, applied, msgs, delivered>>

\* r.mu.Lock(ctx) returns nil.
S_LockMap(t) ==
    /\ pc[t] = "lockMap"
    /\ Acquirable(mu)
    /\ mu' = t
    /\ pc' = [pc EXCEPT ![t] = "inMap"]
    /\ UNCHANGED <<rockets, entryMu, call, applied, started, msgs, delivered>>

\* Get or create the rocket entry, r.mu.Unlock(), getUpdateFuncForMessage.
S_FindOrCreate(t) ==
    /\ pc[t] = "inMap"
    /\ LET envelope == call[t].envelope
           rocketID == GetChannel(envelope)
       IN  /\ rockets' = IF rockets[rocketID] = Null
                         THEN [rockets EXCEPT ![rocketID] = NewEntry(rocketID, envelope)]
                         ELSE rockets
           /\ mu' = Unlock(mu)
           /\ pc' = [pc EXCEPT ![t] = IF HasUpdateFunc(envelope) THEN "lockEntry"
                                      ELSE "idle"]
    /\ UNCHANGED <<entryMu, call, applied, started, msgs, delivered>>

\* entry.Mu.Lock(ctx.Ctx) returns nil.
S_LockEntry(t) ==
    /\ pc[t] = "lockEntry"
    /\ LET c == GetChannel(call[t].envelope) IN
       /\ Acquirable(entryMu[c])
       /\ entryMu' = [entryMu EXCEPT ![c] = t]
       /\ call' = [call EXCEPT ![t].pre = rockets[c], ![t].preApplied = applied[c]]
    /\ pc' = [pc EXCEPT ![t] = "process"]
    /\ UNCHANGED <<rockets, mu, applied, started, msgs, delivered>>

\* The body of processMessageWithOrdering up to processBufferedMessages.
S_Process(t) ==
    /\ pc[t] = "process"
    /\ LET c == GetChannel(call[t].envelope)
           r == processStart(rockets[c], call[t].envelope)
       IN  /\ rockets' = [rockets EXCEPT ![c] = r.entry]
           /\ applied' = [applied EXCEPT ![c] = applied[c] \o Numbers(r.applied)]
           /\ call' = [call EXCEPT ![t].ok = r.ok]
           /\ pc' = [pc EXCEPT ![t] = IF r.drain THEN "drain" ELSE "unlock"]
    /\ UNCHANGED <<mu, entryMu, started, msgs, delivered>>

\* One iteration of the loop of processBufferedMessages.
S_Drain(t) ==
    /\ pc[t] = "drain"
    /\ LET c == GetChannel(call[t].envelope)
           r == drainIter(rockets[c])
       IN  /\ rockets' = [rockets EXCEPT ![c] = r.entry]
           /\ applied' = [applied EXCEPT ![c] = applied[c] \o Numbers(r.applied)]
           /\ pc' = [pc EXCEPT ![t] = IF r.more THEN "drain" ELSE "unlock"]
    /\ UNCHANGED <<mu, entryMu, call, started, msgs, delivered>>

\* The deferred entry.Mu.Unlock(); ProcessMessage returns call[t].ok.
S_Unlock(t) ==
    /\ pc[t] = "unlock"
    /\ entryMu' = [entryMu EXCEPT ![GetChannel(call[t].envelope)] = Unlock(@)]
    /\ call' = [call EXCEPT ![t] = NoCall]
    /\ pc' = [pc EXCEPT ![t] = "idle"]
    /\ UNCHANGED <<rockets, mu, applied, started, msgs, delivered>>

Next ==
    \E t \in Threads :
        \/ \E envelope \in Envelopes : S_Begin(t, envelope)
        \/ S_LockMap(t)
        \/ S_FindOrCreate(t)
        \/ S_LockEntry(t)
        \/ S_Process(t)
        \/ S_Drain(t)
        \/ S_Unlock(t)

\* Goroutines submitting any envelopes to the repository concurrently.
Spec == Init /\ [][Next]_vars

\* ------------------------------------------------- the producer's stream

\* The payloads whose update function succeeds.
ValidPayloads(ch, num, tm) == { e \in Payloads(ch, num, tm) : UpdateOk(e) }

\* A producer's stream on channel "r1": message numbers 1..StreamLen, one
\* envelope each, every payload satisfying its precondition.
Streams ==
    { s \in [1..StreamLen -> UNION { ValidPayloads("r1", num, tm) :
                                        num \in 1..StreamLen, tm \in MessageTimes }] :
        \A i \in 1..StreamLen : GetMessageNumber(s[i]) = i }

\* generateTestMessage(rocketID, msgNum, msgType): every envelope carries the
\* launch fields, the speed changes By, the explosion its reason.
generateTestMessage(rocketID, msgNum, tm, msgType) ==
    Envelope(rocketID, msgNum, tm, msgType, "Falcon-9", 500, "BENCHMARK",
             CASE msgType = MessageTypeRocketSpeedIncreased -> 100
               [] msgType = MessageTypeRocketSpeedDecreased -> 50
               [] OTHER -> 0,
             IF msgType = MessageTypeRocketExploded THEN "Benchmark test explosion" ELSE "",
             IF msgType = MessageTypeRocketMissionChanged THEN "NEW-BENCHMARK" ELSE "")

\* generateTestMessages(rocketID, count): a launch first, then speed and mission
\* changes; only the last message may be an explosion.
TestStreams ==
    { s \in [1..StreamLen ->
                { generateTestMessage("r1", num, tm, mt) :
                    num \in 1..StreamLen, tm \in MessageTimes, mt \in MessageTypes }] :
        \A i \in 1..StreamLen :
            /\ GetMessageNumber(s[i]) = i
            /\ (i = 1) <=> (GetMessageType(s[i]) = MessageTypeRocketLaunched)
            /\ GetMessageType(s[i]) = MessageTypeRocketExploded => i = StreamLen }

\* A fresh repository and a producer's stream; one goroutine submits.
InitStream ==
    /\ InitRepo({1})
    /\ msgs \in Streams
    /\ delivered = [i \in 1..StreamLen |-> 0]

\* A fresh repository and a generated test stream; one goroutine per message.
InitOnce ==
    /\ InitRepo(1..StreamLen)
    /\ msgs \in TestStreams
    /\ delivered = [i \in 1..StreamLen |-> 0]

\* The network delivers message i of the stream (again): ProcessMessage is called.
S_Deliver(t, i) ==
    /\ pc[t] = "idle"
    /\ started < MaxDeliveries
    /\ started' = started + 1
    /\ delivered' = [delivered EXCEPT ![i] = delivered[i] + 1]
    /\ call' = [call EXCEPT ![t] = [NoCall EXCEPT !.envelope = msgs[i]]]
    /\ pc' = [pc EXCEPT ![t] = "lockMap"]
    /\ UNCHANGED <<rockets, mu, entryMu, applied, msgs>>

\* processMessages: goroutine t submits message t of the stream, once.
S_DeliverOnce(t) ==
    /\ delivered[t] = 0
    /\ S_Deliver(t, t)

NextStream ==
    \E t \in {1} :
        \/ \E i \in 1..StreamLen : S_Deliver(t, i)
        \/ S_LockMap(t)
        \/ S_FindOrCreate(t)
        \/ S_LockEntry(t)
        \/ S_Process(t)
        \/ S_Drain(t)
        \/ S_Unlock(t)

NextOnce ==
    \E t \in 1..StreamLen :
        \/ S_DeliverOnce(t)
        \/ S_LockMap(t)
        \/ S_FindOrCreate(t)
        \/ S_LockEntry(t)
        \/ S_Process(t)
        \/ S_Drain(t)
        \/ S_Unlock(t)

\* One stream delivered in any order, with redeliveries, one submit at a time.
SpecStream == InitStream /\ [][NextStream]_vars

\* TestMessageOrder: the messages of a generated stream submitted once each by
\* concurrent goroutines.
SpecOnce == InitOnce /\ [][NextOnce]_vars

\* The state of the channel after the stream was submitted once, in ascending order,
\* to a fresh repository.
RECURSIVE SubmitAscending(_, _, _)
SubmitAscending(rs, s, i) ==
    IF i > Len(s) THEN rs
    ELSE SubmitAscending(ProcessMessage(rs, s[i]).rockets, s, i + 1)

Reference(s) == SubmitAscending([c \in Channels |-> Null], s, 1)["r1"]

AllIdle == \A t \in DOMAIN pc : pc[t] = "idle"

\* ------------------------------------------- channels that differ in case

CaseChannels == {"r1", "R1"}

\* A launch and a speed increase for each of the two channels.
CaseEnvelopes ==
    UNION { { Envelope(ch, 1, 1, MessageTypeRocketLaunched, "Falcon-9", 2, "M1", 0, "", ""),
              Envelope(ch, 2, 2, MessageTypeRocketSpeedIncreased, "", 0, "", 1, "", "") }
            : ch \in CaseChannels }

\* A fresh repository; channels "r1" and "R1" are still to come.
InitCase ==
    /\ rockets = [c \in CaseChannels |-> Null]
    /\ mu = 0
    /\ entryMu = [c \in CaseChannels |-> 0]
    /\ pc = [t \in Threads |-> "idle"]
    /\ call = [t \in Threads |-> NoCall]
    /\ applied = [c \in CaseChannels |-> << >>]
    /\ started = 0
    /\ msgs = << >>
    /\ delivered = << >>

NextCase ==
    \E t \in Threads :
        \/ \E envelope \in CaseEnvelopes : S_Begin(t, envelope)
        \/ S_LockMap(t)
        \/ S_FindOrCreate(t)
        \/ S_LockEntry(t)
        \/ S_Process(t)
        \/ S_Drain(t)
        \/ S_Unlock(t)

\* Goroutines submitting to two channels whose ids differ only in letter case.
SpecCase == InitCase /\ [][NextCase]_vars

\* --------------------------------------------------- the message endpoint

\* validateEnvelope(envelope) returns nil.
validateEnvelope(envelope) ==
    /\ ~(envelope.Channel = "")
    /\ ~(envelope.MessageNumber <= 0)
    /\ ~(envelope.MessageTime = 0)
    /\ CASE envelope.MessageType = MessageTypeRocketLaunched ->
                ~(envelope.Type = "") /\ ~(envelope.Mission = "")
         [] envelope.MessageType \in { MessageTypeRocketSpeedIncreased,
                                       MessageTypeRocketSpeedDecreased } -> TRUE
         [] envelope.MessageType = MessageTypeRocketExploded -> ~(envelope.Reason = "")
         [] envelope.MessageType = MessageTypeRocketMissionChanged ->
                ~(envelope.NewMission = "")
         [] OTHER -> FALSE

\* The request bodies posted to the message endpoint: the decoded envelopes, valid
\* and invalid ones, launch speeds and speed changes of either sign.
ApiEnvelopes ==
    UNION { { Envelope("r1", num, tm, MessageTypeRocketLaunched, "Falcon-9", ls, mi,
                       0, "", "") : ls \in {-1, 2}, mi \in {"", "M1"} }
            \cup { Envelope("r1", num, tm, mt, "", 0, "", by, "", "") :
                     mt \in { MessageTypeRocketSpeedIncreased,
                              MessageTypeRocketSpeedDecreased },
                     by \in {-1, 1} }
            \cup { Envelope("r1", num, tm, MessageTypeRocketExploded, "", 0, "", 0, re, "")
                     : re \in {"", "boom"} }
            \cup { Envelope("r1", num, tm, "RocketLanded", "", 0, "", 0, "", "") }
          : num \in 0..2, tm \in {0, 1} }

\* HandleMessages: the envelope fails validation, 400 is returned and the
\* repository is not called.
H_Reject(t, envelope) ==
    /\ pc[t] = "idle"
    /\ started < MaxSubmits
    /\ ~validateEnvelope(envelope)
    /\ started' = started + 1
    /\ UNCHANGED <<rockets, mu, entryMu, pc, call, applied, msgs, delivered>>

\* HandleMessages: the envelope passes validation and ProcessMessage is called.
H_Process(t, envelope) ==
    /\ validateEnvelope(envelope)
    /\ S_Begin(t, envelope)

\* A fresh repository behind the endpoint; one request is handled at a time.
InitApi ==
    /\ InitRepo({1})
    /\ msgs = << >>
    /\ delivered = << >>

NextApi ==
    \E t \in {1} :
        \/ \E envelope \in ApiEnvelopes : H_Reject(t, envelope)
        \/ \E envelope \in ApiEnvelopes : H_Process(t, envelope)
        \/ S_LockMap(t)
        \/ S_FindOrCreate(t)
        \/ S_LockEntry(t)
        \/ S_Process(t)
        \/ S_Drain(t)
        \/ S_Unlock(t)

\* Requests posted to the message endpoint of a fresh repository, one at a time.
SpecApi == InitApi /\ [][NextApi]_vars

\* ------------------------------------------------------ GetRocket, ListRockets

\* The deep copy GetRocket returns.
RocketCopy(state) ==
    [ ID |-> state.ID, Type |-> state.Type, Speed |-> state.Speed,
      Mission |-> state.Mission, Exploded |-> state.Exploded, Reason |-> state.Reason,
      UpdatedAt |-> state.UpdatedAt, CreatedAt |-> state.CreatedAt,
      LastProcessedMessageNumber |-> state.LastProcessedMessageNumber ]

\* The summary ListRockets appends for an entry.
RocketSummary(state) ==
    [ ID |-> state.ID, Type |-> state.Type, Speed |-> state.Speed,
      Mission |-> state.Mission,
      Status |-> IF state.Exploded THEN "exploded" ELSE "active",
      UpdatedAt |-> state.UpdatedAt ]

\* The strings of the model in Go's (bytewise) string order.
StringOrder ==
    << "", "BENCHMARK", "Falcon-9", "M1", "M2", "NEW-BENCHMARK",
       "active", "exploded", "r1", "r2", "r3", "r4" >>

\* a < b on Go strings.
StringLess(a, b) ==
    \E i, j \in 1..Len(StringOrder) :
        StringOrder[i] = a /\ StringOrder[j] = b /\ i < j

\* The sort parameters of the model that hold an upper-case letter, each with
\* its lower-cased form.
LowerCased ==
    << <<"ID", "id">>, <<"Id", "id">>, <<"TYPE", "type">>, <<"Type", "type">>,
       <<"Speed", "speed">>, <<"SPEED", "speed">>, <<"Mission", "mission">>,
       <<"Status", "status">>, <<"STATUS", "status">>,
       <<"updatedAt", "updatedat">>, <<"UpdatedAt", "updatedat">>,
       <<"UPDATEDAT", "updatedat">>, <<"BOGUS", "bogus">>, <<"Name", "name">>,
       <<"ASC", "asc">>, <<"Asc", "asc">>, <<"DESC", "desc">>, <<"Desc", "desc">>,
       <<"deSC", "desc">>, <<"UP", "up">>, <<"Descending", "descending">> >>

\* Mutant of ToLower: the string as it was given.
ToLower_Identity(str) == str

\* strings.ToLower on the sort parameters of the model.
ToLower(str) ==
    IF \E i \in 1..Len(LowerCased) : LowerCased[i][1] = str
    THEN LowerCased[CHOOSE i \in 1..Len(LowerCased) : LowerCased[i][1] = str][2]
    ELSE str

ValidSortFields == {"id", "type", "speed", "mission", "status", "updatedat"}

ValidOrders == {"asc", "desc"}

NewSortOptions == [Field |-> "id", Order |-> "asc"]

\* ParseSortOptions(sortField, order): lower-cased, the defaults for what is not valid.
ParseSortOptions(sortField, order) ==
    [ Field |-> IF ToLower(sortField) # "" /\ ToLower(sortField) \in ValidSortFields
                THEN ToLower(sortField) ELSE NewSortOptions.Field,
      Order |-> IF ToLower(order) # "" /\ ToLower(order) \in ValidOrders
                THEN ToLower(order) ELSE NewSortOptions.Order ]

\* Mutant of sortFunc: the order option is ignored.
sortFunc_Ascending(summaries, i, j, options) ==
    LET a == summaries[i + 1]
        b == summaries[j + 1]
    IN  CASE ToLower(options.Field) = "type" -> StringLess(a.Type, b.Type)
          [] ToLower(options.Field) = "speed" -> a.Speed < b.Speed
          [] ToLower(options.Field) = "mission" -> StringLess(a.Mission, b.Mission)
          [] ToLower(options.Field) = "status" -> StringLess(a.Status, b.Status)
          [] ToLower(options.Field) = "updatedat" -> a.UpdatedAt < b.UpdatedAt
          [] OTHER -> StringLess(a.ID, b.ID)

\* sortFunc(i, j) of the sorting function, on slice indices.
sortFunc(summaries, i, j, options) ==
    LET a == summaries[i + 1]
        b == summaries[j + 1]
        result ==
            CASE ToLower(options.Field) = "id" -> StringLess(a.ID, b.ID)
              [] ToLower(options.Field) = "type" -> StringLess(a.Type, b.Type)
              [] ToLower(options.Field) = "speed" -> a.Speed < b.Speed
              [] ToLower(options.Field) = "mission" -> StringLess(a.Mission, b.Mission)
              [] ToLower(options.Field) = "status" -> StringLess(a.Status, b.Status)
              [] ToLower(options.Field) = "updatedat" -> a.UpdatedAt < b.UpdatedAt
              [] OTHER -> StringLess(a.ID, b.ID)
    IN  IF options.Order = "desc" THEN ~result ELSE result

\* The inner loop of the insertion sort sort.SliceStable runs on a slice shorter
\* than its block size of 20: element j sinks while sortFunc(j, j - 1).
RECURSIVE insertionSink(_, _, _)
insertionSink(summaries, j, options) ==
    IF j > 0 /\ sortFunc(summaries, j, j - 1, options)
    THEN insertionSink([summaries EXCEPT ![j + 1] = summaries[j], ![j] = summaries[j + 1]],
                       j - 1, options)
    ELSE summaries

RECURSIVE insertionSort(_, _, _)
insertionSort(summaries, i, options) ==
    IF i >= Len(summaries) THEN summaries
    ELSE insertionSort(insertionSink(summaries, i, options), i + 1, options)

\* The sorting function: sort.SliceStable(summaries, sortFunc).
SortRocketSummaries(summaries, options) == insertionSort(summaries, 1, options)

\* The repository's sortRocketSummaries(summaries, field, order).
sortRocketSummaries(summaries, field, order) ==
    SortRocketSummaries(summaries, ParseSortOptions(field, order))

\* The channels, envelopes and list parameters of the concurrent specification.
ConcChannels == {"r1", "r2"}

ConcThreads == 1..NumCallers

FairThreads == 1..NumFairCallers

ConcEnvelopes ==
    { Envelope("r1", 1, 1, MessageTypeRocketLaunched, "Falcon-9", 2, "M1", 0, "", ""),
      Envelope("r1", 2, 2, MessageTypeRocketSpeedIncreased, "", 0, "", 1, "", ""),
      Envelope("r2", 1, 1, MessageTypeRocketLaunched, "Falcon-9", 2, "M1", 0, "", "") }

ListParams == { <<"", "asc">>, <<"Speed", "desc">> }

GetCall(id) == [op |-> "get", id |-> id, result |-> Null]

ListCall(sortField, order) ==
    [ op |-> "list", sortField |-> sortField, order |-> order,
      todo |-> {}, cur |-> "", summaries |-> << >> ]

\* Mutant of Exists: every id is found.
Exists_Always(rs, id) == TRUE

\* entry, exists := r.rockets[rocketID]
Exists(rs, id) == rs[id] # Null

\* GetRocket(ctx, id) is called (its context is not done).
G_Begin(t, id) ==
    /\ pc[t] = "idle"
    /\ started < MaxCalls
    /\ started' = started + 1
    /\ call' = [call EXCEPT ![t] = GetCall(id)]
    /\ pc' = [pc EXCEPT ![t] = "getLockMap"]
    /\ UNCHANGED <<rockets, mu, entryMu, applied, msgs, delivered>>

\* r.mu.Lock(ctx) returns nil.
G_LockMap(t) ==
    /\ pc[t] = "getLockMap"
    /\ Acquirable(mu)
    /\ mu' = t
    /\ pc' = [pc EXCEPT ![t] = "getLookup"]
    /\ UNCHANGED <<rockets, entryMu, call, applied, started, msgs, delivered>>

\* entry, exists := r.rockets[id]; without an entry the map lock is released and
\* (nil, false) returned.
G_Lookup(t) ==
    /\ pc[t] = "getLookup"
    /\ IF ~Exists(rockets, call[t].id)
       THEN /\ mu' = Unlock(mu)
            /\ call' = [call EXCEPT ![t] = NoCall]
            /\ pc' = [pc EXCEPT ![t] = "idle"]
       ELSE /\ pc' = [pc EXCEPT ![t] = "getLockEntry"]
            /\ UNCHANGED <<mu, call>>
    /\ UNCHANGED <<rockets, entryMu, applied, started, msgs, delivered>>

\* entry.Mu.Lock(ctx) returns nil; the map lock is still held.
G_LockEntry(t) ==
    /\ pc[t] = "getLockEntry"
    /\ Acquirable(entryMu[call[t].id])
    /\ entryMu' = [entryMu EXCEPT ![call[t].id] = t]
    /\ pc' = [pc EXCEPT ![t] = "getCopy"]
    /\ UNCHANGED <<rockets, mu, call, applied, started, msgs, delivered>>

\* The deep copy of the state is made.
G_Copy(t) ==
    /\ pc[t] = "getCopy"
    /\ call' = [call EXCEPT ![t].result = RocketCopy(rockets[call[t].id].State)]
    /\ pc' = [pc EXCEPT ![t] = "getUnlock"]
    /\ UNCHANGED <<rockets, mu, entryMu, applied, started, msgs, delivered>>

\* entry.Mu.Unlock(); r.mu.Unlock(); return rocketCopy, true.
G_Unlock(t) ==
    /\ pc[t] = "getUnlock"
    /\ entryMu' = [entryMu EXCEPT ![call[t].id] = Unlock(@)]
    /\ mu' = Unlock(mu)
    /\ call' = [call EXCEPT ![t] = NoCall]
    /\ pc' = [pc EXCEPT ![t] = "idle"]
    /\ UNCHANGED <<rockets, applied, started, msgs, delivered>>

\* ListRockets(ctx, sortField, order) is called (its context is not done).
L_Begin(t, sortField, order) ==
    /\ pc[t] = "idle"
    /\ started < MaxCalls
    /\ started' = started + 1
    /\ call' = [call EXCEPT ![t] = ListCall(sortField, order)]
    /\ pc' = [pc EXCEPT ![t] = "listLockMap"]
    /\ UNCHANGED <<rockets, mu, entryMu, applied, msgs, delivered>>

\* r.mu.Lock(ctx) returns nil; the loop will range over the entries of the map.
L_LockMap(t) ==
    /\ pc[t] = "listLockMap"
    /\ Acquirable(mu)
    /\ mu' = t
    /\ call' = [call EXCEPT ![t].todo = { c \in DOMAIN rockets : rockets[c] # Null }]
    /\ pc' = [pc EXCEPT ![t] = "listNext"]
    /\ UNCHANGED <<rockets, entryMu, applied, started, msgs, delivered>>

\* The range loop yields its next entry (Go's map order is arbitrary).
L_Pick(t, c) ==
    /\ pc[t] = "listNext"
    /\ c \in call[t].todo
    /\ call' = [call EXCEPT ![t].cur = c]
    /\ pc' = [pc EXCEPT ![t] = "listLockEntry"]
    /\ UNCHANGED <<rockets, mu, entryMu, applied, started, msgs, delivered>>

\* entry.Mu.Lock(ctx) returns nil; the map lock is still held.
L_LockEntry(t) ==
    /\ pc[t] = "listLockEntry"
    /\ Acquirable(entryMu[call[t].cur])
    /\ entryMu' = [entryMu EXCEPT ![call[t].cur] = t]
    /\ pc' = [pc EXCEPT ![t] = "listEntry"]
    /\ UNCHANGED <<rockets, mu, call, applied, started, msgs, delivered>>

\* The summary of the entry is appended; entry.Mu.Unlock().
L_Entry(t) ==
    /\ pc[t] = "listEntry"
    /\ LET c == call[t].cur IN
       /\ call' = [call EXCEPT
                     ![t].summaries = Append(@, RocketSummary(rockets[c].State)),
                     ![t].todo = @ \ {c}]
       /\ entryMu' = [entryMu EXCEPT ![c] = Unlock(@)]
    /\ pc' = [pc EXCEPT ![t] = "listNext"]
    /\ UNCHANGED <<rockets, mu, applied, started, msgs, delivered>>

\* The loop is over: the summaries are sorted when a sort field was given, the
\* deferred r.mu.Unlock() runs.
L_Finish(t) ==
    /\ pc[t] = "listNext"
    /\ call[t].todo = {}
    /\ call' = [call EXCEPT ![t].summaries =
                  IF call[t].sortField # ""
                  THEN sortRocketSummaries(@, call[t].sortField, call[t].order)
                  ELSE @]
    /\ mu' = Unlock(mu)
    /\ pc' = [pc EXCEPT ![t] = "listReturn"]
    /\ UNCHANGED <<rockets, entryMu, applied, started, msgs, delivered>>

\* ListRockets has returned call[t].summaries.
L_Return(t) ==
    /\ pc[t] = "listReturn"
    /\ call' = [call EXCEPT ![t] = NoCall]
    /\ pc' = [pc EXCEPT ![t] = "idle"]
    /\ UNCHANGED <<rockets, mu, entryMu, applied, started, msgs, delivered>>

\* A fresh repository with two channels to come and the given goroutines, each
\* of which may call any of the three operations.
InitCallers(threads) ==
    /\ rockets = [c \in ConcChannels |-> Null]
    /\ mu = 0
    /\ entryMu = [c \in ConcChannels |-> 0]
    /\ pc = [t \in threads |-> "idle"]
    /\ call = [t \in threads |-> NoCall]
    /\ applied = [c \in ConcChannels |-> << >>]
    /\ started = 0
    /\ msgs = << >>
    /\ delivered = << >>

InitConc == InitCallers(ConcThreads)

InitConcFair == InitCallers(FairThreads)

\* A step of goroutine t inside a call it has started.
Proceed(t) ==
    \/ S_LockMap(t)
    \/ S_FindOrCreate(t)
    \/ S_LockEntry(t)
    \/ S_Process(t)
    \/ S_Drain(t)
    \/ S_Unlock(t)
    \/ G_LockMap(t)
    \/ G_Lookup(t)
    \/ G_LockEntry(t)
    \/ G_Copy(t)
    \/ G_Unlock(t)
    \/ L_LockMap(t)
    \/ \E c \in ConcChannels : L_Pick(t, c)
    \/ L_LockEntry(t)
    \/ L_Entry(t)
    \/ L_Finish(t)
    \/ L_Return(t)

NextConc ==
    \E t \in ConcThreads :
        \/ \E envelope \in ConcEnvelopes : S_Begin(t, envelope)
        \/ \E id \in ConcChannels : G_Begin(t, id)
        \/ \E p \in ListParams : L_Begin(t, p[1], p[2])
        \/ Proceed(t)

NextConcFair ==
    \E t \in FairThreads :
        \/ \E envelope \in ConcEnvelopes : S_Begin(t, envelope)
        \/ \E id \in ConcChannels : G_Begin(t, id)
        \/ \E p \in ListParams : L_Begin(t, p[1], p[2])
        \/ Proceed(t)

\* Goroutines calling ProcessMessage, GetRocket and ListRockets concurrently.
SpecConc == InitConc /\ [][NextConc]_vars

\* The same under fair scheduling: a goroutine that can take a step of its call
\* eventually takes one (the Go scheduler runs every runnable goroutine).
SpecConcFair ==
    InitConcFair /\ [][NextConcFair]_vars /\ \A t \in FairThreads : WF_vars(Proceed(t))

\* First messages of every kind: launches, speed increases whose update function
\* fails, explosions and messages of an unknown type on "r1"; on "r2" an unknown
\* type and a mission change that arrives ahead of its turn.
LifeEnvelopes ==
    UNION { { Envelope("r1", num, 1, MessageTypeRocketLaunched, "Falcon-9", 2, "M1", 0, "", ""),
              Envelope("r1", num, 1, MessageTypeRocketSpeedIncreased, "", 0, "", 0, "", ""),
              Envelope("r1", num, 1, MessageTypeRocketExploded, "", 0, "", 0, "boom", ""),
              Envelope("r1", num, 1, "RocketLanded", "", 0, "", 0, "", "") }
            : num \in 1..2 }
    \cup { Envelope("r2", 1, 1, "RocketLanded", "", 0, "", 0, "", ""),
           Envelope("r2", 2, 1, MessageTypeRocketMissionChanged, "", 0, "", 0, "", "M2") }

InitLife == InitCallers(Threads)

NextLife ==
    \E t \in Threads :
        \/ \E envelope \in LifeEnvelopes : S_Begin(t, envelope)
        \/ \E id \in ConcChannels : G_Begin(t, id)
        \/ \E p \in ListParams : L_Begin(t, p[1], p[2])
        \/ Proceed(t)

\* Goroutines submitting first messages of every kind and reading concurrently.
SpecLife == InitLife /\ [][NextLife]_vars

\* Sort parameters as a client may send them: the recognised words in several
\* spellings, the empty string and words that are not recognised.
FieldInputs ==
    { "", "id", "ID", "Id", "type", "TYPE", "Type", "speed", "Speed", "SPEED",
      "mission", "Mission", "status", "Status", "STATUS",
      "updatedat", "updatedAt", "UpdatedAt", "UPDATEDAT",
      "bogus", "BOGUS", "Name", "updated_at", "asc" }

OrderInputs ==
    { "", "asc", "ASC", "Asc", "desc", "DESC", "Desc", "deSC",
      "up", "UP", "Descending", "ascending", "id" }

ParseCall(sortField, order) ==
    [ op |-> "parse", sortField |-> sortField, order |-> order, options |-> Null ]

InitParse ==
    /\ InitRepo({1})
    /\ msgs = << >>
    /\ delivered = << >>

\* A call of ParseSortOptions with any of the inputs.
P_Begin(t, sortField, order) ==
    /\ pc[t] = "idle"
    /\ started < MaxCalls
    /\ started' = started + 1
    /\ call' = [call EXCEPT ![t] = ParseCall(sortField, order)]
    /\ pc' = [pc EXCEPT ![t] = "parse"]
    /\ UNCHANGED <<rockets, mu, entryMu, applied, msgs, delivered>>

\* The call returns the options.
P_Parse(t) ==
    /\ pc[t] = "parse"
    /\ call' = [call EXCEPT
                  ![t].options = ParseSortOptions(call[t].sortField, call[t].order)]
    /\ pc' = [pc EXCEPT ![t] = "parsed"]
    /\ UNCHANGED <<rockets, mu, entryMu, applied, started, msgs, delivered>>

\* The caller drops the options.
P_Return(t) ==
    /\ pc[t] = "parsed"
    /\ call' = [call EXCEPT ![t] = NoCall]
    /\ pc' = [pc EXCEPT ![t] = "idle"]
    /\ UNCHANGED <<rockets, mu, entryMu, applied, started, msgs, delivered>>

NextParse ==
    \/ \E sortField \in FieldInputs, order \in OrderInputs : P_Begin(1, sortField, order)
    \/ P_Parse(1)
    \/ P_Return(1)

\* ParseSortOptions applied to every pair of inputs.
SpecParse == InitParse /\ [][NextParse]_vars

\* The longest snapshot that is sorted.
MaxSummaries == 3

SummaryIDs == {"r1", "r2", "r3", "r4"}

\* The summaries of the snapshots: every id with each of three combinations of
\* the other fields, so that summaries of different ids are equal in any field
\* but the id.
SummaryPool ==
    { [ ID |-> id, Type |-> v[1], Speed |-> v[2], Mission |-> v[3],
        Status |-> v[4], UpdatedAt |-> v[5] ]
      : id \in SummaryIDs,
        v \in { <<"Falcon-9", 1, "M1", "active", 1>>,
                <<"Falcon-9", 2, "M2", "exploded", 2>>,
                <<"BENCHMARK", 2, "M1", "active", 1>> } }

\* Snapshots as ListRockets builds them: one summary per entry, in any order.
Snapshots ==
    UNION { { q \in [1..n -> SummaryPool] :
                \A i, j \in 1..n : i # j => q[i].ID # q[j].ID }
            : n \in 0..MaxSummaries }

SortFields == {"id", "type", "speed", "mission", "status", "updatedAt"}

SortOrders == {"asc", "desc"}

SortCall(summaries, sortField, order) ==
    [ op |-> "sort", input |-> summaries, sortField |-> sortField, order |-> order,
      summaries |-> summaries ]

InitSort ==
    /\ InitRepo({1})
    /\ msgs = << >>
    /\ delivered = << >>

\* A call of sortRocketSummaries on a snapshot.
T_Begin(t, summaries, sortField, order) ==
    /\ pc[t] = "idle"
    /\ call' = [call EXCEPT ![t] = SortCall(summaries, sortField, order)]
    /\ pc' = [pc EXCEPT ![t] = "sort"]
    /\ UNCHANGED <<rockets, mu, entryMu, applied, started, msgs, delivered>>

\* The slice is sorted in place.
T_Sort(t) ==
    /\ pc[t] = "sort"
    /\ call' = [call EXCEPT
                  ![t].summaries = sortRocketSummaries(@, call[t].sortField, call[t].order)]
    /\ pc' = [pc EXCEPT ![t] = "sorted"]
    /\ UNCHANGED <<rockets, mu, entryMu, applied, started, msgs, delivered>>

\* The caller drops the slice.
T_Return(t) ==
    /\ pc[t] = "sorted"
    /\ call' = [call EXCEPT ![t] = NoCall]
    /\ pc' = [pc EXCEPT ![t] = "idle"]
    /\ UNCHANGED <<rockets, mu, entryMu, applied, started, msgs, delivered>>

NextSort ==
    \/ \E summaries \in Snapshots, sortField \in SortFields, order \in SortOrders :
          T_Begin(1, summaries, sortField, order)
    \/ T_Sort(1)
    \/ T_Return(1)

\* sortRocketSummaries applied to every snapshot, field and order.
SpecSort == InitSort /\ [][NextSort]_vars

\* ------------------------------------------------------------ cancellation
\*
\* The context of a call may become done at any moment. The calls look at it
\* where the code does: ctx.Err() at the start of each (and before each entry of
\* the list loop) and inside ContextMutex.Lock. Whether sem.Acquire fails for a
\* context that is done while the lock is free depends on the version of the
\* semaphore package, so a Lock may fail whether or not the lock is free.

\* What GetRocket returns: the copy (or nil) and the exists flag.
GetReturn(id, result, exists) ==
    [op |-> "get", id |-> id, result |-> result, exists |-> exists]

\* What ListRockets returns with an error: nil for the summaries.
ListErr(sortField, order) ==
    [ op |-> "list", sortField |-> sortField, order |-> order,
      todo |-> {}, cur |-> "", summaries |-> Null ]

\* ProcessMessage: ctx.Err() != nil at the start, return false.
S_CtxDone(t, envelope) ==
    /\ pc[t] = "idle"
    /\ started < MaxSubmits
    /\ started' = started + 1
    /\ UNCHANGED <<rockets, mu, entryMu, pc, call, applied, msgs, delivered>>

\* ProcessMessage: r.mu.Lock(ctx) returns an error, return false.
S_LockMapErr(t) ==
    /\ pc[t] = "lockMap"
    /\ call' = [call EXCEPT ![t] = NoCall]
    /\ pc' = [pc EXCEPT ![t] = "idle"]
    /\ UNCHANGED <<rockets, mu, entryMu, applied, started, msgs, delivered>>

\* processMessageWithOrdering: entry.Mu.Lock(ctx.Ctx) returns an error, return
\* false.
S_LockEntryErr(t) ==
    /\ pc[t] = "lockEntry"
    /\ call' = [call EXCEPT ![t] = NoCall]
    /\ pc' = [pc EXCEPT ![t] = "idle"]
    /\ UNCHANGED <<rockets, mu, entryMu, applied, started, msgs, delivered>>

\* GetRocket: ctx.Err() != nil at the start, return nil, false.
G_CtxDone(t, id) ==
    /\ pc[t] = "idle"
    /\ started < MaxCalls
    /\ started' = started + 1
    /\ call' = [call EXCEPT ![t] = GetReturn(id, Null, FALSE)]
    /\ pc' = [pc EXCEPT ![t] = "getReturn"]
    /\ UNCHANGED <<rockets, mu, entryMu, applied, msgs, delivered>>

\* GetRocket: r.mu.Lock(ctx) returns an error, return nil, false.
G_LockMapErr(t) ==
    /\ pc[t] = "getLockMap"
    /\ call' = [call EXCEPT ![t] = GetReturn(call[t].id, Null, FALSE)]
    /\ pc' = [pc EXCEPT ![t] = "getReturn"]
    /\ UNCHANGED <<rockets, mu, entryMu, applied, started, msgs, delivered>>

\* Mutant of G_LockEntryErr: the map lock is not released.
G_LockEntryErr_KeepsMap(t) ==
    /\ pc[t] = "getLockEntry"
    /\ call' = [call EXCEPT ![t] = GetReturn(call[t].id, Null, FALSE)]
    /\ pc' = [pc EXCEPT ![t] = "getReturn"]
    /\ UNCHANGED <<rockets, mu, entryMu, applied, started, msgs, delivered>>

\* GetRocket: entry.Mu.Lock(ctx) returns an error, r.mu.Unlock(), return nil,
\* false.
G_LockEntryErr(t) ==
    /\ pc[t] = "getLockEntry"
    /\ mu' = Unlock(mu)
    /\ call' = [call EXCEPT ![t] = GetReturn(call[t].id, Null, FALSE)]
    /\ pc' = [pc EXCEPT ![t] = "getReturn"]
    /\ UNCHANGED <<rockets, entryMu, applied, started, msgs, delivered>>

\* GetRocket has returned call[t].result, call[t].exists after an error.
G_ReturnErr(t) ==
    /\ pc[t] = "getReturn"
    /\ call' = [call EXCEPT ![t] = NoCall]
    /\ pc' = [pc EXCEPT ![t] = "idle"]
    /\ UNCHANGED <<rockets, mu, entryMu, applied, started, msgs, delivered>>

\* ListRockets: ctx.Err() != nil at the start, return nil, err.
L_CtxDone(t, sortField, order) ==
    /\ pc[t] = "idle"
    /\ started < MaxCalls
    /\ started' = started + 1
    /\ call' = [call EXCEPT ![t] = ListErr(sortField, order)]
    /\ pc' = [pc EXCEPT ![t] = "listReturn"]
    /\ UNCHANGED <<rockets, mu, entryMu, applied, msgs, delivered>>

\* ListRockets: r.mu.Lock(ctx) returns an error, return nil, ctx.Err().
L_LockMapErr(t) ==
    /\ pc[t] = "listLockMap"
    /\ call' = [call EXCEPT ![t] = ListErr(call[t].sortField, call[t].order)]
    /\ pc' = [pc EXCEPT ![t] = "listReturn"]
    /\ UNCHANGED <<rockets, mu, entryMu, applied, started, msgs, delivered>>

\* ListRockets: ctx.Err() != nil before an entry of the loop, return nil, err;
\* the deferred r.mu.Unlock() runs.
L_LoopCtxDone(t) ==
    /\ pc[t] = "listNext"
    /\ call[t].todo # {}
    /\ mu' = Unlock(mu)
    /\ call' = [call EXCEPT ![t] = ListErr(call[t].sortField, call[t].order)]
    /\ pc' = [pc EXCEPT ![t] = "listReturn"]
    /\ UNCHANGED <<rockets, entryMu, applied, started, msgs, delivered>>

\* ListRockets: entry.Mu.Lock(ctx) returns an error, return nil, ctx.Err(); the
\* deferred r.mu.Unlock() runs.
L_LockEntryErr(t) ==
    /\ pc[t] = "listLockEntry"
    /\ mu' = Unlock(mu)
    /\ call' = [call EXCEPT ![t] = ListErr(call[t].sortField, call[t].order)]
    /\ pc' = [pc EXCEPT ![t] = "listReturn"]
    /\ UNCHANGED <<rockets, entryMu, applied, started, msgs, delivered>>

\* A step in which goroutine t finds the context of its call done.
Cancelled(t) ==
    \/ S_LockMapErr(t)
    \/ S_LockEntryErr(t)
    \/ G_LockMapErr(t)
    \/ G_LockEntryErr(t)
    \/ G_ReturnErr(t)
    \/ L_LockMapErr(t)
    \/ L_LoopCtxDone(t)
    \/ L_LockEntryErr(t)

InitCancel == InitCallers(ConcThreads)

NextCancel ==
    \E t \in ConcThreads :
        \/ \E envelope \in ConcEnvelopes : S_Begin(t, envelope)
        \/ \E envelope \in ConcEnvelopes : S_CtxDone(t, envelope)
        \/ \E id \in ConcChannels : G_Begin(t, id)
        \/ \E id \in ConcChannels : G_CtxDone(t, id)
        \/ \E p \in ListParams : L_Begin(t, p[1], p[2])
        \/ \E p \in ListParams : L_CtxDone(t, p[1], p[2])
        \/ Proceed(t)
        \/ Cancelled(t)

\* The three operations called concurrently with contexts that may be cancelled.
SpecCancel == InitCancel /\ [][NextCancel]_vars

\* ------------------------------------------- messages that fail when applied
\*
\* A channel that has already received one message. The envelopes: a launch 1, a
\* speed increase 1 and a speed increase 2 whose update function fails (By = 0),
\* a valid speed increase 2, a mission change 3.
DrainEnvelopes ==
    { Envelope("r1", 1, 1, MessageTypeRocketLaunched, "Falcon-9", 2, "M1", 0, "", ""),
      Envelope("r1", 1, 1, MessageTypeRocketSpeedIncreased, "", 0, "", 0, "", ""),
      Envelope("r1", 2, 1, MessageTypeRocketSpeedIncreased, "", 0, "", 0, "", ""),
      Envelope("r1", 2, 2, MessageTypeRocketSpeedIncreased, "", 0, "", 1, "", ""),
      Envelope("r1", 3, 2, MessageTypeRocketMissionChanged, "", 0, "", 0, "", "M2") }

\* The repository after ProcessMessage has returned for a first envelope.
InitDrain ==
    \E first \in DrainEnvelopes :
        LET r == processStart(NewEntry(GetChannel(first), first), first) IN
        /\ rockets = [c \in Channels |-> IF c = GetChannel(first) THEN r.entry ELSE Null]
        /\ applied = [c \in Channels |->
                        IF c = GetChannel(first) THEN Numbers(r.applied) ELSE << >>]
        /\ mu = 0
        /\ entryMu = [c \in Channels |-> 0]
        /\ pc = [t \in Threads |-> "idle"]
        /\ call = [t \in Threads |-> NoCall]
        /\ started = 0
        /\ msgs = << >>
        /\ delivered = << >>

NextDrain ==
    \E t \in Threads :
        \/ \E envelope \in DrainEnvelopes : S_Begin(t, envelope)
        \/ S_LockMap(t)
        \/ S_FindOrCreate(t)
        \/ S_LockEntry(t)
        \/ S_Process(t)
        \/ S_Drain(t)
        \/ S_Unlock(t)

\* Submits of messages that fail when applied, in order or from the buffer.
SpecDrain == InitDrain /\ [][NextDrain]_vars

\* ----------------------------------------------------------------- claims

Range(q) == { q[i] : i \in 1..Len(q) }

\* The envelopes of a buffer with their multiplicities.
BagOf(q) == [ x \in Range(q) |-> Cardinality({ i \in 1..Len(q) : q[i] = x }) ]

LastApplied(c) == rockets[c].State.LastProcessedMessageNumber

\* Goroutine t has run the ordering protocol on its envelope and still holds the
\* entry lock: the entry is as its call leaves it.
Processed(t) == pc[t] = "unlock"

ChannelOf(t) == call[t].envelope.Channel

\* C1: a stream 1..N of valid messages, none Exploded, delivered in any order and
\* any number of times: once every submit has returned, lastApplied = N and the
\* state is the one reached by submitting 1..N once each in ascending order.
C1_RedeliveryTolerance ==
    ( /\ AllIdle
      /\ \A i \in 1..StreamLen :
            /\ delivered[i] >= 1
            /\ GetMessageType(msgs[i]) # MessageTypeRocketExploded )
    => /\ rockets["r1"] # Null
       /\ LastApplied("r1") = StreamLen
       /\ rockets["r1"].State = Reference(msgs).State

\* C2: on every channel the applied message numbers are 1, 2, ..., lastApplied, in
\* that order (each application raises lastApplied by exactly 1).
C2_AppliedPrefix ==
    \A c \in Channels :
        IF rockets[c] = Null THEN applied[c] = << >>
        ELSE applied[c] = [i \in 1..LastApplied(c) |-> i]

\* C2 witness: three messages were applied, at least one of them from the buffer.
C2_Witness ==
    /\ applied["r1"] = <<1, 2, 3>>
    /\ \E t \in DOMAIN pc : pc[t] = "drain"

\* C3: the messages of a gap-free stream (explosions and relaunches included)
\* submitted once each, one at a time, in any order, leave the same final state
\* as the ascending order.
C3_OrderIndependence ==
    ( AllIdle /\ \A i \in 1..StreamLen : delivered[i] = 1 )
    => /\ rockets["r1"] # Null
       /\ rockets["r1"].State = Reference(msgs).State

\* C4: the messages of a generated test stream 1..N (a launch first, only the
\* last possibly an explosion) submitted once each by concurrent goroutines:
\* once all submits have returned, lastApplied = N.
C4_ConcurrentOnce ==
    ( AllIdle /\ \A i \in 1..StreamLen : delivered[i] = 1 )
    => /\ rockets["r1"] # Null
       /\ LastApplied("r1") = StreamLen

\* C4 witness: all goroutines have returned, the stream ended in an explosion
\* and it was applied.
C4_Witness ==
    /\ AllIdle
    /\ \A i \in 1..StreamLen : delivered[i] = 1
    /\ GetMessageType(msgs[StreamLen]) = MessageTypeRocketExploded
    /\ rockets["r1"].State.Exploded
    /\ applied["r1"] = [i \in 1..StreamLen |-> i]

\* C5: a submit whose message number was already applied on the channel when it
\* took the entry lock returns false and leaves the RocketState as it was.
C5_DuplicateIdempotent ==
    \A t \in DOMAIN pc :
        ( /\ Processed(t)
          /\ GetMessageNumber(call[t].envelope) \in Range(call[t].preApplied) )
        => /\ ~call[t].ok
           /\ rockets[ChannelOf(t)].State = call[t].pre.State

\* C5 witness: a duplicate of an applied number, of another type than the applied
\* launch, on a rocket that has not exploded, was processed.
C5_Witness ==
    \E t \in DOMAIN pc :
        /\ Processed(t)
        /\ GetMessageNumber(call[t].envelope) = 1
        /\ 1 \in Range(call[t].preApplied)
        /\ GetMessageType(call[t].envelope) = MessageTypeRocketMissionChanged
        /\ ~call[t].pre.State.Exploded
        /\ call[t].pre.State.Mission = "M1"

\* C6: while no submit holds the entry lock of a channel, no envelope in its
\* buffer has messageNumber <= lastApplied.
C6_NoStaleBuffered ==
    \A c \in Channels :
        ( rockets[c] # Null /\ entryMu[c] = 0 )
        => \A i \in 1..Len(rockets[c].Buffer) :
              GetMessageNumber(rockets[c].Buffer[i]) > LastApplied(c)

\* The call of goroutine t applied its own envelope: the first application since
\* it took the lock is of its message number.
AppliedByCall(t) ==
    LET c == ChannelOf(t)
        n == Len(call[t].preApplied)
    IN  /\ Len(applied[c]) > n
        /\ applied[c][n + 1] = GetMessageNumber(call[t].envelope)

\* The call of goroutine t added its envelope to the buffer and changed nothing else.
BufferedByCall(t) ==
    LET c == ChannelOf(t) IN
    /\ rockets[c].State = call[t].pre.State
    /\ applied[c] = call[t].preApplied
    /\ BagOf(rockets[c].Buffer) = BagOf(call[t].pre.Buffer) (+) SetToBag({call[t].envelope})

\* C7: submit returns true exactly when the call applied its envelope or placed
\* it in the buffer; when it returns false the state and the buffer of the channel
\* are as they were when it took the entry lock.
C7_AcceptedIffAppliedOrBuffered ==
    \A t \in DOMAIN pc :
        Processed(t)
        => /\ call[t].ok <=> (AppliedByCall(t) \/ BufferedByCall(t))
           /\ ~call[t].ok => rockets[ChannelOf(t)] = call[t].pre

\* C7 witness: an in-order message whose payload fails its precondition was
\* rejected on a channel with a non-empty buffer.
C7_Witness ==
    \E t \in DOMAIN pc :
        /\ Processed(t)
        /\ ~call[t].ok
        /\ IsExpected(call[t].pre.State, GetMessageNumber(call[t].envelope))
        /\ ~UpdateOk(call[t].envelope)
        /\ call[t].pre.Buffer # << >>

\* C8: a submit with messageNumber > lastApplied + 1 on a rocket that has not
\* exploded returns true, leaves every RocketState field unchanged and adds the
\* envelope to the buffer, nothing else.
C8_FutureMessageBuffered ==
    \A t \in DOMAIN pc :
        ( /\ Processed(t)
          /\ ~call[t].pre.State.Exploded
          /\ GetMessageNumber(call[t].envelope)
                > call[t].pre.State.LastProcessedMessageNumber + 1 )
        => call[t].ok /\ BufferedByCall(t)

\* C8 witness: a future message was buffered on a channel whose buffer already
\* held an envelope with the same number.
C8_Witness ==
    \E t \in DOMAIN pc :
        /\ Processed(t)
        /\ ~call[t].pre.State.Exploded
        /\ call[t].pre.State.LastProcessedMessageNumber = 1
        /\ GetMessageNumber(call[t].envelope) = 3
        /\ \E i \in 1..Len(call[t].pre.Buffer) :
              GetMessageNumber(call[t].pre.Buffer[i]) = 3

\* C9: while no submit holds the entry lock of a channel and its rocket has not
\* exploded, no envelope in its buffer has messageNumber = lastApplied + 1.
C9_DrainCompleteness ==
    \A c \in Channels :
        ( rockets[c] # Null /\ entryMu[c] = 0 /\ ~rockets[c].State.Exploded )
        => \A i \in 1..Len(rockets[c].Buffer) :
              GetMessageNumber(rockets[c].Buffer[i]) # LastApplied(c) + 1

\* C10: while the rocket is exploded, a submit of a non-Launched envelope, whatever
\* its number, returns false and changes neither the RocketState nor the buffer.
C10_TerminalGate ==
    \A t \in DOMAIN pc :
        ( /\ Processed(t)
          /\ call[t].pre.State.Exploded
          /\ GetMessageType(call[t].envelope) # MessageTypeRocketLaunched )
        => /\ ~call[t].ok
           /\ rockets[ChannelOf(t)] = call[t].pre

\* C10 witness: a valid speed increase with the next expected number was submitted
\* to an exploded rocket.
C10_Witness ==
    \E t \in DOMAIN pc :
        /\ Processed(t)
        /\ call[t].pre.State.Exploded
        /\ GetMessageType(call[t].envelope) = MessageTypeRocketSpeedIncreased
        /\ UpdateOk(call[t].envelope)
        /\ IsExpected(call[t].pre.State, GetMessageNumber(call[t].envelope))

\* C11: a submit to an exploded rocket leaves the RocketState as it was unless
\* it is a Launched envelope with messageNumber = lastApplied + 1, and such a
\* submit (its type and mission non-empty) changes the state.
C11_OnlyRelaunchChangesExploded ==
    \A t \in DOMAIN pc :
        ( Processed(t) /\ call[t].pre.State.Exploded )
        => LET envelope == call[t].envelope
               relaunch == /\ GetMessageType(envelope) = MessageTypeRocketLaunched
                           /\ GetMessageNumber(envelope)
                                = call[t].pre.State.LastProcessedMessageNumber + 1
           IN  /\ ~relaunch => rockets[ChannelOf(t)].State = call[t].pre.State
               /\ (relaunch /\ UpdateOk(envelope))
                    => rockets[ChannelOf(t)].State # call[t].pre.State

\* C11 witness: a Launched envelope two numbers ahead was submitted to an
\* exploded rocket (and buffered).
C11_Witness ==
    \E t \in DOMAIN pc :
        /\ Processed(t)
        /\ call[t].pre.State.Exploded
        /\ GetMessageType(call[t].envelope) = MessageTypeRocketLaunched
        /\ GetMessageNumber(call[t].envelope)
              = call[t].pre.State.LastProcessedMessageNumber + 2
        /\ call[t].ok

\* C12: on every step that sets exploded = true on a channel, every Launched
\* envelope in the channel's buffer before the step is in the buffer after it.
C12_PruneKeepsLaunched ==
    [][ \A c \in Channels :
          ( /\ rockets[c] # Null
            /\ ~rockets[c].State.Exploded
            /\ rockets'[c].State.Exploded )
          => \A i \in 1..Len(rockets[c].Buffer) :
                GetMessageType(rockets[c].Buffer[i]) = MessageTypeRocketLaunched
                => rockets[c].Buffer[i] \in Range(rockets'[c].Buffer) ]_vars

\* C13: while a channel's rocket is exploded and no submit is working on its
\* entry (the entry lock is free, or its holder has run the protocol and only
\* has the lock to release), the buffer holds Launched envelopes only.
C13_ExplodedBufferOnlyLaunched ==
    \A c \in Channels :
        ( /\ rockets[c] # Null
          /\ rockets[c].State.Exploded
          /\ entryMu[c] = 0 \/ Processed(entryMu[c]) )
        => \A i \in 1..Len(rockets[c].Buffer) :
              GetMessageType(rockets[c].Buffer[i]) = MessageTypeRocketLaunched

\* C13 witness: an explosion was applied on a channel whose buffer held an
\* envelope of another type than Launched.
C13_Witness ==
    \E t \in DOMAIN pc :
        /\ Processed(t)
        /\ ~call[t].pre.State.Exploded
        /\ rockets[ChannelOf(t)].State.Exploded
        /\ \E i \in 1..Len(call[t].pre.Buffer) :
              GetMessageType(call[t].pre.Buffer[i]) # MessageTypeRocketLaunched

\* Goroutine t runs the body of processMessageWithOrdering on a relaunch: a
\* Launched envelope with type and mission, numbered lastApplied + 1, for an
\* exploded rocket.
RelaunchStep(t) ==
    /\ pc[t] = "process"
    /\ pc'[t] # "process"
    /\ LET envelope == call[t].envelope
           rocket == rockets[envelope.Channel].State
       IN  /\ rocket.Exploded
           /\ GetMessageType(envelope) = MessageTypeRocketLaunched
           /\ envelope.Type # "" /\ envelope.Mission # ""
           /\ GetMessageNumber(envelope) = rocket.LastProcessedMessageNumber + 1

C15_SpeedNonNegative ==
    \A c \in DOMAIN rockets :
        rockets[c] # Null => rockets[c].State.Speed >= 0

\* C16 as stated: every application of a message leaves updatedAt greater than
\* or equal to what it was.
C16_UpdatedAtMonotone ==
    [][ \A c \in Channels :
          ( rockets[c] # Null /\ applied'[c] # applied[c] )
          => rockets'[c].State.UpdatedAt >= rockets[c].State.UpdatedAt ]_vars

\* C16 amended: every application of a message sets updatedAt to the messageTime
\* of the applied envelope; updatedAt does not decrease when that messageTime is
\* not earlier than the messageTime of the message applied before.
C16_UpdatedAtIsMessageTime ==
    [][ \A c \in Channels :
          ( rockets[c] # Null /\ applied'[c] # applied[c] )
          => LET t == entryMu[c]
                 msg == IF pc[t] = "process" THEN call[t].envelope
                        ELSE rockets[c].Buffer[1]
             IN  /\ rockets'[c].State.UpdatedAt = GetMessageTime(msg)
                 /\ GetMessageTime(msg) >= rockets[c].State.UpdatedAt
                      => rockets'[c].State.UpdatedAt >= rockets[c].State.UpdatedAt
       ]_vars

\* C16 witness: a call applied a message whose messageTime is earlier than the
\* updatedAt the rocket had, and updatedAt went back.
C16_Witness ==
    \E t \in DOMAIN pc :
        /\ Processed(t)
        /\ applied[ChannelOf(t)] # call[t].preApplied
        /\ call[t].pre.State.UpdatedAt = 2
        /\ rockets[ChannelOf(t)].State.UpdatedAt = 1

\* The goroutines that are inside a section of their call that the entry lock of
\* channel c guards: between entry.Mu.Lock and entry.Mu.Unlock.
Holders(c) ==
    { t \in DOMAIN pc :
        \/ pc[t] \in {"process", "drain", "unlock"} /\ call[t].envelope.Channel = c
        \/ pc[t] \in {"getCopy", "getUnlock"} /\ call[t].id = c
        \/ pc[t] = "listEntry" /\ call[t].cur = c }

\* A submit is between acquiring and releasing the entry lock of channel c.
SubmitInside(c) ==
    \E u \in DOMAIN pc :
        pc[u] \in {"process", "drain", "unlock"} /\ call[u].envelope.Channel = c

\* C17: the copy GetRocket has made is the state of the channel at an instant
\* (the reader still holds the entry lock) at which no submit on the channel is
\* between acquiring and releasing the entry lock.
C17_NoTornRead ==
    \A t \in DOMAIN pc :
        pc[t] = "getUnlock"
        => /\ call[t].result = rockets[call[t].id].State
           /\ ~SubmitInside(call[t].id)

\* C17 witness: the reader copied the state left by an apply-and-drain (message
\* 2 came from the buffer) while another submit waits for the entry lock.
C17_Witness ==
    \E t, u \in DOMAIN pc :
        /\ pc[t] = "getUnlock"
        /\ call[t].result.LastProcessedMessageNumber = 2
        /\ call[t].result.Speed = 3
        /\ pc[u] = "lockEntry"
        /\ call[u].envelope.Channel = call[t].id

\* The entry locks goroutine t holds.
HeldEntries(t) == { c \in DOMAIN entryMu : entryMu[c] = t }

\* Goroutine t is about to call r.mu.Lock.
RequestsMap(t) == pc[t] \in {"lockMap", "getLockMap", "listLockMap"}

\* C18: no goroutine requests (and so none acquires) the map lock while it holds
\* an entry lock, and no goroutine holds more than one entry lock.
C18_LockOrder ==
    \A t \in DOMAIN pc :
        /\ Cardinality(HeldEntries(t)) <= 1
        /\ RequestsMap(t) => HeldEntries(t) = {}

\* C18 witness: ListRockets holds the map lock and the entry lock of the second
\* entry it visits, a submit holds the other entry lock, a third goroutine
\* requests the map lock.
C18_Witness ==
    \E t, u, w \in DOMAIN pc :
        /\ pc[t] = "listEntry"
        /\ Len(call[t].summaries) = 1
        /\ mu = t
        /\ pc[u] = "process"
        /\ entryMu[call[u].envelope.Channel] = u
        /\ call[u].envelope.Channel # call[t].cur
        /\ RequestsMap(w)

\* Goroutine t waits for a lock that another goroutine holds.
Blocked(t) ==
    \/ RequestsMap(t) /\ ~Acquirable(mu)
    \/ pc[t] = "lockEntry" /\ ~Acquirable(entryMu[call[t].envelope.Channel])
    \/ pc[t] = "getLockEntry" /\ ~Acquirable(entryMu[call[t].id])
    \/ pc[t] = "listLockEntry" /\ ~Acquirable(entryMu[call[t].cur])

\* Some call has not returned and every goroutine inside a call is blocked.
AllBlocked ==
    /\ \E t \in DOMAIN pc : pc[t] # "idle"
    /\ \A t \in DOMAIN pc : pc[t] # "idle" => Blocked(t)

\* C19: in no reachable state is every goroutine inside a call blocked on a
\* lock, and under fair scheduling every call that was started returns.
C19_DeadlockFree ==
    /\ []~AllBlocked
    /\ \A t \in FairThreads : (pc[t] # "idle") ~> (pc[t] = "idle")

\* C19 witness: GetRocket holds the map lock and is blocked on the entry lock a
\* submit holds while it drains the buffer.
C19_Witness ==
    \E t, u \in DOMAIN pc :
        /\ pc[t] = "getLockEntry" /\ mu = t /\ Blocked(t)
        /\ pc[u] = "drain"
        /\ call[u].envelope.Channel = call[t].id

\* C20: at most one goroutine is inside the sections the entry lock of a channel
\* guards, it is the one recorded as the lock's holder, and every step that
\* changes the state or the buffer of an existing entry is a step of that
\* goroutine inside processMessageWithOrdering.
C20_MutationUnderEntryLock ==
    /\ [] \A c \in DOMAIN rockets :
            /\ Cardinality(Holders(c)) <= 1
            /\ \A t \in Holders(c) : entryMu[c] = t
    /\ [][ \A c \in DOMAIN rockets :
              ( rockets[c] # Null /\ rockets'[c] # rockets[c] )
              => \E t \in Holders(c) :
                    /\ entryMu[c] = t
                    /\ pc[t] \in {"process", "drain"}
                    /\ \A u \in DOMAIN pc \ {t} : pc'[u] = pc[u] /\ call'[u] = call[u]
       ]_vars

\* C20 witness: a submit drains the buffer under the entry lock while another
\* submit and a GetRocket wait for the same entry lock.
C20_Witness ==
    \E t, u, v \in DOMAIN pc :
        /\ pc[t] = "drain"
        /\ rockets[call[t].envelope.Channel].Buffer # << >>
        /\ pc[u] = "lockEntry"
        /\ call[u].envelope.Channel = call[t].envelope.Channel
        /\ pc[v] = "getLockEntry"
        /\ call[v].id = call[t].envelope.Channel

\* C21: a goroutine in ProcessMessage that waits for an entry lock, applies a
\* message, drains or clears a buffer, or is about to release the entry lock,
\* does not hold the map lock.
C21_SubmitReleasesMapFirst ==
    \A t \in DOMAIN pc :
        pc[t] \in {"lockEntry", "process", "drain", "unlock"} => mu # t

\* C21 witness: a submit is blocked on the entry lock another submit holds
\* while draining, and the map lock is held by a third goroutine.
C21_Witness ==
    \E t, u, w \in DOMAIN pc :
        /\ pc[t] = "lockEntry" /\ Blocked(t)
        /\ pc[u] = "drain"
        /\ call[u].envelope.Channel = call[t].envelope.Channel
        /\ mu = w /\ w \notin {t, u}

\* C22: a step of a submit on channel c changes neither the state nor the buffer
\* of another channel, "r1" and "R1" being different channels: every entry
\* carries the id of its own channel and buffers envelopes of its own channel only.
C22_ChannelIsolation ==
    /\ [] \A d \in DOMAIN rockets :
            rockets[d] # Null
            => /\ rockets[d].State.ID = d
               /\ \A i \in 1..Len(rockets[d].Buffer) : rockets[d].Buffer[i].Channel = d
    /\ [][ /\ \A t \in DOMAIN pc :
                 ( pc'[t] # pc[t] \/ call'[t] # call[t] )
                 => IF pc[t] = "idle" THEN rockets' = rockets
                    ELSE \A d \in DOMAIN rockets \ {call[t].envelope.Channel} :
                            rockets'[d] = rockets[d]
           /\ ( pc' = pc /\ call' = call )
                 => \A d \in DOMAIN rockets :
                       rockets'[d] # rockets[d]
                       => \E t \in DOMAIN pc :
                             pc[t] = "drain" /\ call[t].envelope.Channel = d /\ entryMu[d] = t
       ]_vars

\* C22 witness: "r1" has applied messages 1 and 2 (2 from its buffer) and "R1"
\* message 1 only, a submit on "R1" still holding its entry lock.
C22_Witness ==
    /\ rockets["r1"] # Null /\ rockets["R1"] # Null
    /\ applied["r1"] = <<1, 2>>
    /\ applied["R1"] = <<1>>
    /\ rockets["r1"].State.Speed = 3
    /\ rockets["R1"].State.Speed = 2
    /\ \E t \in DOMAIN pc : pc[t] = "unlock" /\ call[t].envelope.Channel = "R1"

\* C23: the get-or-create step of a submit for a channel without an entry
\* creates the entry, whatever the message type, with the channel string as id;
\* an entry is never removed and its id never changes; GetRocket on a channel
\* with an entry takes the found path and returns a copy with that id.
C23_EntryLifecycle ==
    /\ [] \A t \in DOMAIN pc :
            pc[t] = "getUnlock" => call[t].result.ID = call[t].id
    /\ [][ /\ \A t \in DOMAIN pc :
                 ( pc[t] = "inMap" /\ pc'[t] # "inMap" )
                 => LET c == call[t].envelope.Channel
                    IN  rockets'[c] # Null /\ rockets'[c].State.ID = c
           /\ \A c \in DOMAIN rockets :
                 rockets[c] # Null
                 => rockets'[c] # Null /\ rockets'[c].State.ID = c
           /\ \A t \in DOMAIN pc :
                 ( pc[t] = "getLookup" /\ pc'[t] # "getLookup" )
                 => ( pc'[t] = "getLockEntry" <=> rockets[call[t].id] # Null )
       ]_vars

\* C23 witness: GetRocket found "r2", whose entry was created by a message of
\* an unknown type and has applied nothing.
C23_Witness ==
    \E t \in DOMAIN pc :
        /\ pc[t] = "getUnlock"
        /\ call[t].id = "r2"
        /\ call[t].result.LastProcessedMessageNumber = 0
        /\ rockets["r2"].Buffer = << >>

ReadPcs ==
    { "getLockMap", "getLookup", "getLockEntry", "getCopy", "getUnlock",
      "listLockMap", "listNext", "listLockEntry", "listEntry", "listReturn" }

Empty(rs) == \A c \in DOMAIN rs : rs[c] = Null

\* C24: a step of GetRocket or ListRockets, from the call to the return,
\* leaves every channel's entry (existence, RocketState and buffer) as it was;
\* on a repository without entries GetRocket returns not found and ListRockets
\* returns the empty sequence.
C24_ReadOnly ==
    [][ \A t \in DOMAIN pc :
          ( pc'[t] # pc[t] /\ ( pc[t] \in ReadPcs \/ pc'[t] \in ReadPcs ) )
          => /\ rockets' = rockets
             /\ applied' = applied
             /\ ( Empty(rockets) /\ pc[t] = "getLookup" ) => pc'[t] = "idle"
             /\ ( Empty(rockets) /\ pc'[t] = "listReturn" )
                => call'[t].summaries = << >>
      ]_vars

\* C24 witness: one ListRockets has returned the empty sequence from the empty
\* repository, and a later GetRocket holds its copy of an entry whose state a
\* submit has changed since it was created.
C24_Witness ==
    \E t, u \in DOMAIN pc :
        /\ pc[t] = "listReturn" /\ call[t].summaries = << >>
        /\ pc[u] = "getUnlock"
        /\ rockets[call[u].id].State.LastProcessedMessageNumber > 0
        /\ call[u].result = RocketCopy(rockets[call[u].id].State)

RocketStatusActive == "Active"
RocketStatusExploded == "Exploded"

\* C25: the summary ListRockets appends for an entry has status "Exploded"
\* when the entry's rocket has exploded and "Active" otherwise.
C25_StatusStrings ==
    [][ \A t \in DOMAIN pc :
          ( pc[t] = "listEntry" /\ pc'[t] = "listNext" )
          => LET summaries == call'[t].summaries
                 summary == summaries[Len(summaries)]
             IN  summary.Status = IF rockets[call[t].cur].State.Exploded
                                  THEN RocketStatusExploded
                                  ELSE RocketStatusActive
      ]_vars

\* The spellings of each recognised field and order among the inputs.
Spellings ==
    [ id |-> {"id", "ID", "Id"},
      type |-> {"type", "TYPE", "Type"},
      speed |-> {"speed", "Speed", "SPEED"},
      mission |-> {"mission", "Mission"},
      status |-> {"status", "Status", "STATUS"},
      updatedat |-> {"updatedat", "updatedAt", "UpdatedAt", "UPDATEDAT"},
      asc |-> {"asc", "ASC", "Asc"},
      desc |-> {"desc", "DESC", "Desc", "deSC"} ]

\* The recognised word str is a spelling of, of the words given, or the fallback.
Effective(str, words, fallback) ==
    IF \E w \in words : str \in Spellings[w]
    THEN CHOOSE w \in words : str \in Spellings[w]
    ELSE fallback

\* C26: ParseSortOptions returns as field the lower-cased field when it is one
\* of id, type, speed, mission, status, updatedAt in any letter case and id
\* otherwise, and as order the lower-cased order when it is asc or desc in any
\* letter case and asc otherwise.
C26_ParseSortOptions ==
    \A t \in DOMAIN pc :
        pc[t] = "parsed"
        => /\ call[t].options.Field
                = Effective(call[t].sortField,
                            {"id", "type", "speed", "mission", "status", "updatedat"},
                            "id")
           /\ call[t].options.Order
                = Effective(call[t].order, {"asc", "desc"}, "asc")

\* C26 witness: a field and an order in mixed case were parsed to their
\* lower-cased forms.
C26_Witness ==
    \E t \in DOMAIN pc :
        /\ pc[t] = "parsed"
        /\ call[t].sortField = "UpdatedAt" /\ call[t].options.Field = "updatedat"
        /\ call[t].order = "deSC" /\ call[t].options.Order = "desc"

\* a.field <= b.field for the effective field: strings in lexicographic order,
\* speed as integer, updatedAt by time.
FieldLeq(a, b, field) ==
    CASE field = "id" -> ~StringLess(b.ID, a.ID)
      [] field = "type" -> ~StringLess(b.Type, a.Type)
      [] field = "speed" -> a.Speed <= b.Speed
      [] field = "mission" -> ~StringLess(b.Mission, a.Mission)
      [] field = "status" -> ~StringLess(b.Status, a.Status)
      [] field = "updatedat" -> a.UpdatedAt <= b.UpdatedAt

EffectiveField(sortField) ==
    Effective(sortField, {"id", "type", "speed", "mission", "status", "updatedat"}, "id")

\* C27: the sorted slice is a permutation of the snapshot, and each adjacent
\* pair is non-decreasing in the chosen field for asc, non-increasing for desc.
C27_SortedPermutation ==
    \A t \in DOMAIN pc :
        pc[t] = "sorted"
        => LET q == call[t].summaries
               field == EffectiveField(call[t].sortField)
           IN  /\ BagOf(q) = BagOf(call[t].input)
               /\ \A i \in 1..(Len(q) - 1) :
                     IF call[t].order = "desc"
                     THEN FieldLeq(q[i + 1], q[i], field)
                     ELSE FieldLeq(q[i], q[i + 1], field)

\* C27 witness: a snapshot of three summaries given in ascending speed was
\* sorted by speed, descending, with two of them equal in speed.
C27_Witness ==
    \E t \in DOMAIN pc :
        /\ pc[t] = "sorted"
        /\ call[t].sortField = "speed" /\ call[t].order = "desc"
        /\ Len(call[t].input) = 3
        /\ call[t].input[1].Speed = 1
        /\ call[t].input[2].Speed = 2
        /\ call[t].input[3].Speed = 2
        /\ call[t].summaries # call[t].input

\* The index of the summary with the given id in q.
IndexOf(q, id) == CHOOSE i \in 1..Len(q) : q[i].ID = id

\* a and b are equal in the field.
FieldEq(a, b, field) == FieldLeq(a, b, field) /\ FieldLeq(b, a, field)

\* C28: any two summaries that are equal in the sort field are in the sorted
\* slice in the relative order they had in the snapshot, for asc and for desc.
C28_Stable ==
    \A t \in DOMAIN pc :
        pc[t] = "sorted"
        => LET in == call[t].input
               out == call[t].summaries
               field == EffectiveField(call[t].sortField)
           IN  \A i, j \in 1..Len(in) :
                  ( i < j /\ FieldEq(in[i], in[j], field) )
                  => IndexOf(out, in[i].ID) < IndexOf(out, in[j].ID)

\* C29: two ListRockets calls with the same, non-empty sort field and the same
\* order that sampled the same channel states return the same sequence,
\* whatever the order in which each visited the entries.
C29_ListingDeterministic ==
    \A t, u \in DOMAIN pc :
        ( /\ pc[t] = "listReturn" /\ pc[u] = "listReturn"
          /\ call[t].sortField # ""
          /\ call[t].sortField = call[u].sortField
          /\ call[t].order = call[u].order
          /\ Range(call[t].summaries) = Range(call[u].summaries) )
        => call[t].summaries = call[u].summaries

\* A speed change whose payload violates by >= 1.
Malformed(envelope) ==
    /\ GetMessageType(envelope) \in { MessageTypeRocketSpeedIncreased,
                                      MessageTypeRocketSpeedDecreased }
    /\ envelope.By < 1

\* C30: a SpeedIncreased or SpeedDecreased envelope with by < 1 creates no
\* channel entry, is in no buffer and is not reported as accepted, whatever
\* its messageNumber.
C30_MalformedRejectedFirst ==
    /\ [] \A c \in DOMAIN rockets :
            rockets[c] # Null
            => \A i \in 1..Len(rockets[c].Buffer) : ~Malformed(rockets[c].Buffer[i])
    /\ [] \A t \in DOMAIN pc :
            ( pc[t] = "unlock" /\ Malformed(call[t].envelope) ) => ~call[t].ok
    /\ [][ \A t \in DOMAIN pc :
            ( pc[t] = "inMap" /\ Malformed(call[t].envelope) ) => rockets' = rockets
         ]_vars

\* Another goroutine's submit for channel c is between the get-or-create step
\* and its return.
OtherSubmitOn(c, t) ==
    \E u \in DOMAIN pc :
        /\ u # t
        /\ pc[u] \in {"lockEntry", "process", "drain", "unlock"}
        /\ call[u].envelope.Channel = c

\* C31: a submit that ends on a cancelled context leaves no entry of its own
\* making: a cancellation at the map lock changes nothing, and after a
\* cancellation at the entry lock the entry of the channel is one for which a
\* message was applied or buffered or another submit is under way.
C31_CancelledSubmitNoTrace ==
    [][ \A t \in DOMAIN pc :
          ( pc[t] \in {"lockMap", "lockEntry"} /\ pc'[t] = "idle" )
          => /\ rockets' = rockets
             /\ applied' = applied
             /\ pc[t] = "lockEntry"
                => LET c == call[t].envelope.Channel
                   IN  \/ applied[c] # << >>
                       \/ rockets[c].Buffer # << >>
                       \/ OtherSubmitOn(c, t)
      ]_vars

\* Goroutine t is between r.mu.Lock and r.mu.Unlock of its call.
MapSection(t) ==
    pc[t] \in { "inMap", "getLookup", "getLockEntry", "getCopy", "getUnlock",
                "listNext", "listLockEntry", "listEntry" }

\* C32: a goroutine holds the map lock exactly between r.mu.Lock and the
\* r.mu.Unlock of the path it takes, and the entry lock of a channel exactly
\* between entry.Mu.Lock and entry.Mu.Unlock; so on every return (success,
\* rejection, not found, cancellation) it holds no lock, and a lock changes hands
\* only by its holder releasing it and a goroutine acquiring it while it is free.
C32_LocksReleasedOnReturn ==
    /\ [] \A t \in DOMAIN pc :
            /\ mu = t <=> MapSection(t)
            /\ \A c \in DOMAIN entryMu : entryMu[c] = t <=> t \in Holders(c)
            /\ pc[t] \in {"idle", "getReturn", "listReturn"}
               => mu # t /\ HeldEntries(t) = {}
    /\ [][ /\ mu' # mu => ( mu = 0 \/ ( mu' = 0 /\ pc'[mu] # pc[mu] ) )
           /\ \A c \in DOMAIN entryMu :
                 entryMu'[c] # entryMu[c]
                 => ( entryMu[c] = 0
                      \/ ( entryMu'[c] = 0 /\ pc'[entryMu[c]] # pc[entryMu[c]] ) )
       ]_vars

\* C32 witness: a ListRockets and a GetRocket have returned on cancelled
\* contexts, the GetRocket after it had found the entry, while a submit holds
\* the entry lock of the channel; the map lock is free.
C32_Witness ==
    \E t, u, w \in DOMAIN pc :
        /\ pc[t] = "listReturn" /\ call[t].summaries = Null
        /\ pc[u] = "getReturn" /\ rockets[call[u].id] # Null
        /\ pc[w] = "process" /\ entryMu[call[u].id] = w
        /\ mu = 0

\* GetRocket's return for an id without an entry: return nil, false.
NotFoundReturn == [result |-> Null, exists |-> FALSE]

\* C40: a GetRocket that ends on a cancelled context for an id that has an
\* entry returns something other than what it returns for an id without entry.
C40_CancelledIsNotNotFound ==
    [][ \A t \in DOMAIN pc :
          ( /\ pc[t] \in {"idle", "getLockMap", "getLockEntry"}
            /\ pc'[t] = "getReturn"
            /\ rockets[call'[t].id] # Null )
          => [result |-> call'[t].result, exists |-> call'[t].exists] # NotFoundReturn
      ]_vars

\* Some submit for channel c is between the call and its return.
SubmitUnderWay(c) ==
    \E u \in DOMAIN pc :
        /\ pc[u] \in {"lockMap", "inMap", "lockEntry", "process", "drain", "unlock"}
        /\ call[u].envelope.Channel = c

\* C33: a submit with messageNumber > 1 that finds the entry as it was created
\* returns true, and while a channel has only buffered messages with numbers
\* above 1, none applied, and no submit under way, the copy GetRocket makes has
\* type, mission and reason empty, speed 0, exploded false and
\* LastProcessedMessageNumber 0.
C33_FirstMessageAheadLeavesZeroState ==
    /\ \A t \in DOMAIN pc :
          ( /\ pc[t] = "unlock"
            /\ GetMessageNumber(call[t].envelope) > 1
            /\ call[t].preApplied = << >>
            /\ call[t].pre.Buffer = << >> )
          => call[t].ok
    /\ \A t \in DOMAIN pc :
          ( /\ pc[t] = "getUnlock"
            /\ applied[call[t].id] = << >>
            /\ rockets[call[t].id].Buffer # << >>
            /\ ~SubmitUnderWay(call[t].id) )
          => /\ call[t].result.Type = ""
             /\ call[t].result.Mission = ""
             /\ call[t].result.Reason = ""
             /\ call[t].result.Speed = 0
             /\ call[t].result.Exploded = FALSE
             /\ call[t].result.LastProcessedMessageNumber = 0

\* C35: a submit whose number is ahead of its turn and is already in the buffer
\* of its channel returns false and leaves the buffer as it was, and no buffer
\* holds two envelopes with the same messageNumber.
C35_TiesRejected ==
    /\ [] \A c \in DOMAIN rockets :
            rockets[c] # Null
            => \A i, j \in 1..Len(rockets[c].Buffer) :
                  i # j => GetMessageNumber(rockets[c].Buffer[i])
                             # GetMessageNumber(rockets[c].Buffer[j])
    /\ [][ \A t \in DOMAIN pc :
            ( /\ pc[t] = "process" /\ pc'[t] # "process"
              /\ GetMessageNumber(call[t].envelope)
                   > rockets[ChannelOf(t)].State.LastProcessedMessageNumber + 1
              /\ \E i \in 1..Len(rockets[ChannelOf(t)].Buffer) :
                    GetMessageNumber(rockets[ChannelOf(t)].Buffer[i])
                      = GetMessageNumber(call[t].envelope) )
            => /\ ~call'[t].ok
               /\ rockets'[ChannelOf(t)].Buffer = rockets[ChannelOf(t)].Buffer
         ]_vars

\* The envelope at the top of the buffer of channel c has the expected number
\* and its update function fails.
TopFails(c) ==
    /\ Len(rockets[c].Buffer) > 0
    /\ IsExpected(rockets[c].State, GetMessageNumber(rockets[c].Buffer[1]))
    /\ ~UpdateOk(rockets[c].Buffer[1])

\* C34: a message whose update function fails when its turn comes changes no
\* field of the RocketState: as the in-order submit it returns false and leaves
\* the entry as it was; popped from the buffer it is discarded, and the rest of
\* the drain applies no message with a higher number.
C34_FailedUpdateMutatesNothing ==
    [][ \A t \in DOMAIN pc :
          LET c == ChannelOf(t) IN
          /\ ( /\ pc[t] = "process" /\ pc'[t] # "process"
               /\ ~ExplodedGate(rockets[c].State, call[t].envelope)
               /\ IsExpected(rockets[c].State, GetMessageNumber(call[t].envelope))
               /\ ~UpdateOk(call[t].envelope) )
             => /\ rockets'[c] = rockets[c]
                /\ applied'[c] = applied[c]
                /\ ~call'[t].ok
          /\ ( /\ pc[t] = "drain" /\ rockets'[c] # rockets[c]
               /\ TopFails(c) )
             => /\ rockets'[c].State = rockets[c].State
                /\ applied'[c] = applied[c]
                /\ BagOf(rockets'[c].Buffer) (+) SetToBag({rockets[c].Buffer[1]})
                     = BagOf(rockets[c].Buffer)
                /\ processBufferedMessages(rockets'[c]).State.LastProcessedMessageNumber
                     <= GetMessageNumber(rockets[c].Buffer[1])
      ]_vars

\* The fields of a RocketState that a message of the given type may change,
\* besides LastProcessedMessageNumber and UpdatedAt.
MayChange(messageType) ==
    CASE messageType = MessageTypeRocketLaunched ->
            {"Type", "Mission", "Speed", "CreatedAt", "Exploded", "Reason"}
      [] messageType = MessageTypeRocketSpeedIncreased -> {"Speed"}
      [] messageType = MessageTypeRocketSpeedDecreased -> {"Speed"}
      [] messageType = MessageTypeRocketExploded -> {"Exploded", "Reason"}
      [] messageType = MessageTypeRocketMissionChanged -> {"Mission"}

\* C36: a step that applies a message changes, of the RocketState of its
\* channel, only the fields of the message's type (speed for the two speed
\* messages, mission for MissionChanged, exploded and reason for Exploded, type,
\* mission, speed, createdAt, exploded and reason for Launched), sets
\* LastProcessedMessageNumber to the message's number and UpdatedAt to its
\* messageTime, and leaves the id.
C36_FrameOfApplied ==
    [][ \A c \in DOMAIN rockets :
          applied'[c] # applied[c]
          => LET t == entryMu[c]
                 msg == IF pc[t] = "process" THEN call[t].envelope
                        ELSE rockets[c].Buffer[1]
                 old == rockets[c].State
                 new == rockets'[c].State
             IN  /\ applied'[c] = Append(applied[c], GetMessageNumber(msg))
                 /\ \A f \in {"Type", "Mission", "Speed", "CreatedAt", "Exploded", "Reason"}
                         \ MayChange(GetMessageType(msg)) : new[f] = old[f]
                 /\ new.LastProcessedMessageNumber = GetMessageNumber(msg)
                 /\ new.UpdatedAt = GetMessageTime(msg)
                 /\ new.ID = old.ID /\ new.ID = c
      ]_vars

\* C36 witness: an explosion was applied as message 3 to a rocket launched at
\* speed 2 and sped up by 1; speed, type and mission are as they were.
C36_Witness ==
    \E t \in DOMAIN pc :
        /\ pc[t] = "unlock"
        /\ GetMessageType(call[t].envelope) = MessageTypeRocketExploded
        /\ LET state == rockets[ChannelOf(t)].State IN
           /\ state.Exploded /\ state.Reason = "boom"
           /\ state.LastProcessedMessageNumber = 3
           /\ state.Speed = 3 /\ state.Type = "Falcon-9" /\ state.Mission = "M1"

\* C37: a step that applies a SpeedDecreased with by >= 1 leaves the speed at
\* the old speed minus by, or at exactly 0 when by exceeds the old speed; the
\* message counts as applied (LastProcessedMessageNumber advances by 1) and the
\* submit that applies it on the fast path returns true.
C37_DecreaseClamps ==
    [][ \A c \in DOMAIN rockets :
          applied'[c] # applied[c]
          => LET t == entryMu[c]
                 msg == IF pc[t] = "process" THEN call[t].envelope
                        ELSE rockets[c].Buffer[1]
                 old == rockets[c].State
                 new == rockets'[c].State
             IN  ( GetMessageType(msg) = MessageTypeRocketSpeedDecreased /\ msg.By >= 1 )
                 => /\ new.Speed = IF msg.By > old.Speed THEN 0 ELSE old.Speed - msg.By
                    /\ new.Speed >= 0
                    /\ new.LastProcessedMessageNumber
                         = old.LastProcessedMessageNumber + 1
                    /\ pc[t] = "process" => call'[t].ok
      ]_vars

\* C37 witness: a decrease by 3 was applied as message 2 to a rocket launched
\* at speed 2; the speed is 0 and the submit returns true.
C37_Witness ==
    \E t \in DOMAIN pc :
        /\ pc[t] = "unlock" /\ call[t].ok
        /\ GetMessageType(call[t].envelope) = MessageTypeRocketSpeedDecreased
        /\ call[t].envelope.By = 3
        /\ call[t].pre.State.Speed = 2
        /\ applied[ChannelOf(t)] = <<1, 2>>
        /\ rockets[ChannelOf(t)].State.Speed = 0
        /\ rockets[ChannelOf(t)].State.LastProcessedMessageNumber = 2

\* The summaries are in ascending order of their ids.
AscendingByID(summaries) ==
    \A i, j \in 1..Len(summaries) :
        i < j => StringLess(summaries[i].ID, summaries[j].ID)

\* C38: a ListRockets call with an empty sort field, whatever the order, returns
\* the rockets in the default ordering, ascending by id.
C38_EmptyFieldDefaultOrder ==
    \A t \in DOMAIN pc :
        ( pc[t] = "listReturn" /\ call[t].sortField = "" )
        => AscendingByID(call[t].summaries)

\* The map lock is held by a goroutine that waits for an entry lock.
MapHeldWhileBlocked(t) ==
    /\ mu = t
    /\ \/ pc[t] = "lockEntry" /\ ~Acquirable(entryMu[call[t].envelope.Channel])
       \/ pc[t] = "getLockEntry" /\ ~Acquirable(entryMu[call[t].id])
       \/ pc[t] = "listLockEntry" /\ ~Acquirable(entryMu[call[t].cur])

\* C39: no goroutine holds the map lock while it is blocked waiting for an entry
\* lock, so a call that touches only channel c never waits for a protocol
\* execution that holds the entry lock of another channel d.
C39_CrossChannelProgress ==
    \A t \in DOMAIN pc : ~MapHeldWhileBlocked(t)

====
